---- MODULE Spec2Model ----
(***************************************************************************)
(* Touch input subsystem of the Raspberry Pi media player                  *)
(* (alpha/raspberry-pi-5-app/src/input/touch.py): the sampler thread       *)
(* TouchHandler._read_events, the coordinate mapper _map_coordinates and   *)
(* the region table; and its display driver                                *)
(* (alpha/raspberry-pi-5-app/src/display/screen.py): class Screen.         *)
(*                                                                         *)
(* Specifications:                                                         *)
(*   Spec     the sampler thread reading evdev events, with the region     *)
(*            table changed by the UI thread and start()/stop();           *)
(*   SpecPress the sampler thread alone, counting the samples and the      *)
(*            callbacks of each press;                                     *)
(*   SpecMap  _map_coordinates applied to raw inputs drawn from the whole  *)
(*            raw range 0..MaxRaw;                                         *)
(*   SpecScreen the operations of Screen on the SPI bus and the three      *)
(*            digital lines, with failing constructors and bus writes;     *)
(*   SpecPixel the RGB565 packing of one pixel;                            *)
(*   SpecApp  MediaPlayerApp (alpha/raspberry-pi-5-app/src/main.py): the   *)
(*            main thread's initialize, loop and cleanup beside the        *)
(*            sampler thread and the callbacks it runs                     *)
(*            (src/display/renderer.py, ui_components.py);                 *)
(*   SpecAppLive SpecApp with the main thread's progress through the join  *)
(*            and the rest of cleanup;                                     *)
(*   SpecTorn the sampler's stores to the touch state attribute by         *)
(*            attribute, beside a reading thread;                          *)
(*   SpecPlayer VLCController (src/vlc/controller.py) and the status the   *)
(*            main loop copies into the UI;                                *)
(*   SpecGpio GPIOHandler (src/input/gpio.py): debounced button presses    *)
(*            driving the controller;                                      *)
(*   SpecFail Spec with callbacks that raise inside the sampler thread;    *)
(*   SpecPool start(), stop() and cleanup() of TouchHandler in any order,  *)
(*            with every thread they create.                               *)
(***************************************************************************)
EXTENDS Integers, Sequences, FiniteSets

(***************************************************************************)
(* Program constants.                                                      *)
(***************************************************************************)
RAW_X_MIN == 198
RAW_X_MAX == 3679
RAW_Y_MIN == 292
RAW_Y_MAX == 3800
screen_width == 240
screen_height == 320
\* GPIOHandler.debounce_delay, in tenths of a second
debounce_delay == 3

(***************************************************************************)
(* Bounds of the model.                                                    *)
(***************************************************************************)
\* largest raw axis value the mapper is applied to in SpecMap
MaxRaw == 4095
\* the per-press counters of downs, moves and samples saturate here
MaxCount == 2

VARIABLES
    \* TouchHandler fields
    swap_axes, running, thread, touch_x, touch_y, is_touching, touch_regions,
    \* locals of _read_events
    raw_x, raw_y,
    \* the input device: the kernel's BTN_TOUCH key state
    pen_down,
    \* what the most recent step did: the event it handled, the callbacks it
    \* invoked in order, and (touch_x, touch_y, is_touching) as they were before it
    ev, fired, before,
    \* per press: samples completed and callbacks invoked since the last sample
    \* without contact
    press,
    \* SpecMap: the raw inputs and the results of _map_coordinates
    m_in, m_out,
    \* Screen fields; the levels of the reset, data/command and backlight lines;
    \* what the most recent Screen operation did; what happened before it
    screen, hw, io, hist,
    \* SpecPixel: an RGB pixel and the two bytes _display_image packs it into
    pixel,
    \* the application around the touch handler: its input device, the main
    \* thread's position, the UI and player state the callbacks change
    app,
    \* SpecTorn: the sampler's stores and another thread's loads of
    \* (touch_x, touch_y, is_touching), one attribute at a time
    torn,
    \* VLCController (playlist, libvlc player state) and MediaPlayerUI.is_playing
    player,
    \* GPIOHandler: the clock, last_press_time and what the latest press did
    gpio,
    \* every sampler thread start() has created, and the callback that raised
    pool

vars == <<swap_axes, running, thread, touch_x, touch_y, is_touching, touch_regions,
          raw_x, raw_y, pen_down, ev, fired, before, press, m_in, m_out,
          screen, hw, io, hist,
          pixel, app, torn,
          player, gpio, pool>>

Min(a, b) == IF a <= b THEN a ELSE b
Max(a, b) == IF a >= b THEN a ELSE b

(***************************************************************************)
(* Display driver: the state after Screen.__init__.  A handle is "none"    *)
(* (the field is None), "open" or "closed"; the SpiDev object is also      *)
(* "unopened" between its construction and spi.open.  image is <<>> for    *)
(* None, else the size of the PIL image.                                   *)
(***************************************************************************)
NewScreen(w, h) ==
    [width |-> w, height |-> h, spi |-> "none", image |-> <<>>,
     rst_device |-> "none", dc_device |-> "none", bl_device |-> "none",
     bl_kind |-> "none"]

\* line levels before any device drives them; the backlight in tenths of full
LinesAtBoot == [rst |-> 0, dc |-> 0, bl |-> 0]

\* the record of an operation: its name, whether it returned or raised, the
\* line changes, sleeps and bus writes it performed in order, the fault
\* injected, its arguments, and the screen, lines and history before it
NoOperation ==
    [op |-> "none", result |-> "returned", trace |-> <<>>, fault |-> "none",
     arg |-> <<>>, before |-> <<>>]

\* ready: initialize has succeeded and cleanup was not called since;
\* cleaned: cleanup has returned and initialize was not called since;
\* window: the address window set by the last complete push
NoHistory == [ready |-> FALSE, cleaned |-> FALSE, window |-> <<>>]

\* no pixel packed yet
NoPixel == [rgb |-> <<>>, bytes |-> <<>>, axis |-> 0]

\* MediaPlayerApp and TouchHandler after construction.  device is the input
\* device _find_touch_device found ("open") or None ("none"); main is where
\* the main thread is; started is what TouchHandler.start() returned; cause
\* is why the sampler thread ended; hit is the UI component the last touch
\* callback acted on and action the player action it triggered; spi_users
\* are the threads that have written to the SPI bus or driven the
\* data/command line; last_render is how the last render() of the loop went
\* since the sampler thread ended, if it has; created are the components
\* initialize() assigned, cleaned the components whose cleanup cleanup() has
\* called, in order, and failed those whose cleanup raised
NewApp(dev) ==
    [device |-> dev, main |-> "new", started |-> "unset", cause |-> "none",
     hit |-> "none", action |-> "none", last_render |-> "none", spi_users |-> {},
     created |-> {}, cleaned |-> <<>>, failed |-> {}]

\* nothing stored or loaded yet: the sampler's position inside a store
\* sequence and the values it is storing, the reader's position and what it
\* has loaded, and the triples the sampler has stored completely
NoTorn ==
    [wpc |-> 0, stmt |-> "none", new |-> <<0, 0, FALSE>>, n |-> 0, rpc |-> 0,
     seen |-> <<0, 0, FALSE>>,
     published |-> {<<0, 0, FALSE>>}]

\* VLCController.__init__ before any directory is loaded, and MediaPlayerUI
\* as constructed: media_list holds track numbers, state is the libvlc state
\* of the player, is_playing is MediaPlayerUI.is_playing, op the last
\* operation applied
NewPlayer ==
    [media_list |-> <<>>, current_index |-> 0, state |-> "State.NothingSpecial",
     is_playing |-> FALSE, op |-> "none"]

\* GPIOHandler after _setup_buttons; time in tenths of a second, now being
\* what time.time() returns, which is far more than debounce_delay past the
\* 0 that last_press_time starts from.  press is the latest press: its
\* action, its time, last_press_time and the player before it, and the media
\* action it triggered ("none" if it was rejected)
Actions == {"play_pause", "stop", "next", "previous"}
NoPressed ==
    [action |-> "none", at |-> 0, before |-> [a \in Actions |-> 0],
     player |-> NewPlayer, triggered |-> "none"]
NewGpio ==
    [now |-> debounce_delay + 1, last_press_time |-> [a \in Actions |-> 0],
     press |-> NoPressed]

\* no sampler thread created; raised is the position in fired of the
\* callback that raised, 0 if none did, and touching what is_touching was
\* when it raised
NoPool == [threads |-> <<>>, device |-> "open", raised |-> 0, touching |-> FALSE]

(***************************************************************************)
(* Coordinate mapper.  Python computes norm = (raw - MIN) / (MAX - MIN) in *)
(* floating point and then int(norm * dimension); for the calibration      *)
(* constants and the screen sizes 240 and 320 this equals the integer      *)
(* quotient ((raw - MIN) * dimension) \div (MAX - MIN) for every raw       *)
(* value (checked exhaustively over the raw range).                        *)
(***************************************************************************)
ClampX(rx) == Max(RAW_X_MIN, Min(RAW_X_MAX, rx))
ClampY(ry) == Max(RAW_Y_MIN, Min(RAW_Y_MAX, ry))

\* int(norm_x * dimension) for an already clamped raw x
ScaleX(cx, dimension) == ((cx - RAW_X_MIN) * dimension) \div (RAW_X_MAX - RAW_X_MIN)
\* int(norm_y * dimension) for an already clamped raw y
ScaleY(cy, dimension) == ((cy - RAW_Y_MIN) * dimension) \div (RAW_Y_MAX - RAW_Y_MIN)

\* faulty variant of MapCoordinates: the clamp left out
MapNoClamp(rx, ry, swap) ==
    IF swap
    THEN <<ScaleY(ry, screen_width), ScaleX(rx, screen_height)>>
    ELSE <<ScaleX(rx, screen_width), ScaleY(ry, screen_height)>>

\* faulty variant of MapCoordinates: the axes inverted (1 - norm for norm)
MapInverted(rx, ry, swap) ==
    IF swap
    THEN <<screen_width - ScaleY(ClampY(ry), screen_width),
           screen_height - ScaleX(ClampX(rx), screen_height)>>
    ELSE <<screen_width - ScaleX(ClampX(rx), screen_width),
           screen_height - ScaleY(ClampY(ry), screen_height)>>

MapCoordinates(rx, ry, swap) ==
    IF swap
    THEN <<ScaleY(ClampY(ry), screen_width), ScaleX(ClampX(rx), screen_height)>>
    ELSE <<ScaleX(ClampX(rx), screen_width), ScaleY(ClampY(ry), screen_height)>>

_map_coordinates(rx, ry) == MapCoordinates(rx, ry, swap_axes)

(***************************************************************************)
(* Input events.  The sampler sees evdev events of the touch device:       *)
(* absolute axis updates, the BTN_TOUCH key and the sync marker.  The      *)
(* kernel reports a key only when its state changes, so BTN_TOUCH          *)
(* alternates; the state of the pen when the device is opened is unknown.  *)
(***************************************************************************)
RawXValues == {1938, RAW_X_MAX}
RawYValues == {2046, RAW_Y_MAX}

AbsEvent(c, v) == [type |-> "EV_ABS", code |-> c, value |-> v]
KeyEvent(v) == [type |-> "EV_KEY", code |-> "BTN_TOUCH", value |-> v]
SynEvent == [type |-> "EV_SYN", code |-> "SYN_REPORT", value |-> 0]
NoEvent == [type |-> "none", code |-> "none", value |-> 0]

Events ==
    {AbsEvent("ABS_X", v) : v \in RawXValues}
        \cup {AbsEvent("ABS_Y", v) : v \in RawYValues}
        \cup {AbsEvent("ABS_PRESSURE", 0)}
        \cup {KeyEvent(v) : v \in {0, 1}}
        \cup {SynEvent}

IsTouchKey(e) == e.type = "EV_KEY" /\ e.code = "BTN_TOUCH"

\* the kernel emits BTN_TOUCH only when the key state changes
DeviceCanEmit(e) == IsTouchKey(e) => (e.value = 1) # pen_down

(***************************************************************************)
(* Callback invocations, as recorded in fired.                             *)
(***************************************************************************)
Call(cb, name, x, y) == [cb |-> cb, name |-> name, x |-> x, y |-> y]

RECURSIVE Count(_, _)
Count(cb, calls) ==
    IF calls = <<>> THEN 0
    ELSE (IF Head(calls).cb = cb THEN 1 ELSE 0) + Count(cb, Tail(calls))

Snapshot == [x |-> touch_x, y |-> touch_y, touching |-> is_touching]

(***************************************************************************)
(* Region table.  touch_regions is a Python dict: iteration follows the    *)
(* order in which the keys were inserted, and assigning to an existing key *)
(* replaces the value in place.                                            *)
(***************************************************************************)
RegionNames == {"A", "B"}
Rects ==
    { [x |-> 0, y |-> 0, width |-> 240, height |-> 320],
      [x |-> 100, y |-> 100, width |-> 100, height |-> 100] }

Region(name, r) ==
    [name |-> name, x |-> r.x, y |-> r.y, width |-> r.width, height |-> r.height]

IndexOf(name) ==
    IF \E i \in 1..Len(touch_regions) : touch_regions[i].name = name
    THEN CHOOSE i \in 1..Len(touch_regions) : touch_regions[i].name = name
    ELSE 0

\* the rectangle test of the region lookup
Contains(reg, x, y) ==
    /\ reg.x <= x /\ x < reg.x + reg.width
    /\ reg.y <= y /\ y < reg.y + reg.height

RECURSIVE CheckFrom(_, _, _)
CheckFrom(i, x, y) ==
    IF i > Len(touch_regions) THEN <<>>
    ELSE IF Contains(touch_regions[i], x, y)
         THEN <<Call("region", touch_regions[i].name, x, y)>>
         ELSE CheckFrom(i + 1, x, y)

\* TouchHandler._check_regions: the callbacks it invokes, in order
_check_regions(x, y) == CheckFrom(1, x, y)

register_region(name, r) ==
    /\ touch_regions' =
          IF IndexOf(name) = 0
          THEN Append(touch_regions, Region(name, r))
          ELSE [touch_regions EXCEPT ![IndexOf(name)] = Region(name, r)]
    /\ ev' = NoEvent /\ fired' = <<>> /\ before' = Snapshot
    /\ UNCHANGED <<swap_axes, running, thread, touch_x, touch_y, is_touching,
                   raw_x, raw_y, pen_down, press, m_in, m_out,
                   screen, hw, io, hist,
                   pixel, app, torn, player, gpio, pool>>

unregister_region(name) ==
    /\ IndexOf(name) # 0
    /\ touch_regions' =
          SubSeq(touch_regions, 1, IndexOf(name) - 1)
              \o SubSeq(touch_regions, IndexOf(name) + 1, Len(touch_regions))
    /\ ev' = NoEvent /\ fired' = <<>> /\ before' = Snapshot
    /\ UNCHANGED <<swap_axes, running, thread, touch_x, touch_y, is_touching,
                   raw_x, raw_y, pen_down, press, m_in, m_out,
                   screen, hw, io, hist,
                   pixel, app, torn, player, gpio, pool>>

clear_regions ==
    /\ touch_regions' = <<>>
    /\ ev' = NoEvent /\ fired' = <<>> /\ before' = Snapshot
    /\ UNCHANGED <<swap_axes, running, thread, touch_x, touch_y, is_touching,
                   raw_x, raw_y, pen_down, press, m_in, m_out,
                   screen, hw, io, hist,
                   pixel, app, torn, player, gpio, pool>>

(***************************************************************************)
(* The branches of the loop body of _read_events.  Each sets the touch     *)
(* state, the thread's raw_x and raw_y, and fired.                         *)
(***************************************************************************)
\* EV_ABS: only ABS_X and ABS_Y are kept
AxisUpdate(e) ==
    /\ raw_x' = IF e.code = "ABS_X" THEN e.value ELSE raw_x
    /\ raw_y' = IF e.code = "ABS_Y" THEN e.value ELSE raw_y
    /\ fired' = <<>>
    /\ UNCHANGED <<touch_x, touch_y, is_touching>>

\* faulty variant of TouchDown: the region lookup left out
TouchDownNoRegions ==
    LET p == _map_coordinates(raw_x, raw_y) IN
    /\ touch_x' = p[1] /\ touch_y' = p[2]
    /\ is_touching' = TRUE
    /\ fired' = <<Call("on_touch_down", "", p[1], p[2])>>
    /\ UNCHANGED <<raw_x, raw_y>>

\* BTN_TOUCH with value 1
TouchDown ==
    LET p == _map_coordinates(raw_x, raw_y) IN
    /\ touch_x' = p[1] /\ touch_y' = p[2]
    /\ is_touching' = TRUE
    /\ fired' = <<Call("on_touch_down", "", p[1], p[2])>> \o _check_regions(p[1], p[2])
    /\ UNCHANGED <<raw_x, raw_y>>

\* faulty variant of TouchUp: is_touching is not cleared
TouchUpKeepsTouching ==
    /\ fired' = <<Call("on_touch_up", "", touch_x, touch_y)>>
    /\ UNCHANGED <<touch_x, touch_y, is_touching, raw_x, raw_y>>

\* BTN_TOUCH with any other value
TouchUp ==
    /\ is_touching' = FALSE
    /\ fired' = <<Call("on_touch_up", "", touch_x, touch_y)>>
    /\ UNCHANGED <<touch_x, touch_y, raw_x, raw_y>>

\* faulty variant of SyncWhileTouching: regions are looked up on a move too
SyncChecksRegions ==
    LET p == _map_coordinates(raw_x, raw_y) IN
    /\ IF p[1] # touch_x \/ p[2] # touch_y
       THEN /\ touch_x' = p[1] /\ touch_y' = p[2]
            /\ fired' = <<Call("on_touch_move", "", p[1], p[2])>>
                            \o _check_regions(p[1], p[2])
       ELSE /\ fired' = <<>>
            /\ UNCHANGED <<touch_x, touch_y>>
    /\ UNCHANGED <<is_touching, raw_x, raw_y>>

\* EV_SYN while is_touching
SyncWhileTouching ==
    LET p == _map_coordinates(raw_x, raw_y) IN
    /\ IF p[1] # touch_x \/ p[2] # touch_y
       THEN /\ touch_x' = p[1] /\ touch_y' = p[2]
            /\ fired' = <<Call("on_touch_move", "", p[1], p[2])>>
       ELSE /\ fired' = <<>>
            /\ UNCHANGED <<touch_x, touch_y>>
    /\ UNCHANGED <<is_touching, raw_x, raw_y>>

\* an event no branch handles (another key or axis, EV_SYN while not touching)
Ignored ==
    /\ fired' = <<>>
    /\ UNCHANGED <<touch_x, touch_y, is_touching, raw_x, raw_y>>

HandleEvent(e) ==
    IF e.type = "EV_ABS" THEN AxisUpdate(e)
    ELSE IF e.type = "EV_KEY"
         THEN (IF e.code = "BTN_TOUCH"
               THEN (IF e.value = 1 THEN TouchDown ELSE TouchUp)
               ELSE Ignored)
         ELSE IF e.type = "EV_SYN" /\ is_touching THEN SyncWhileTouching
              ELSE Ignored

(***************************************************************************)
(* Bookkeeping of the current press: the samples completed at a sync with  *)
(* contact, and the down and move callbacks, since the last sample without *)
(* contact.  Counters saturate at MaxCount.                                *)
(***************************************************************************)
NoPress == [n |-> 0, same |-> TRUE, pt |-> <<0, 0>>, downs |-> 0, moves |-> 0]

PressAfter(e, calls, touching, p) ==
    LET d == Min(MaxCount, press.downs + Count("on_touch_down", calls))
        m == Min(MaxCount, press.moves + Count("on_touch_move", calls))
    IN  IF e.type = "EV_SYN"
        THEN IF touching
             THEN LET s == IF press.n = 0 THEN TRUE ELSE press.same /\ p = press.pt
                  IN  [n |-> Min(MaxCount, press.n + 1),
                       same |-> s,
                       pt |-> IF ~s THEN <<0, 0>> ELSE IF press.n = 0 THEN p ELSE press.pt,
                       downs |-> d, moves |-> m]
             ELSE NoPress
        ELSE [press EXCEPT !.downs = d, !.moves = m]

\* one iteration of the loop of _read_events, the next event of read_loop():
\* everything but the bookkeeping of the press
ReadStep(e) ==
    /\ thread = "reading"
    /\ DeviceCanEmit(e)
    /\ pen_down' = IF IsTouchKey(e) THEN e.value = 1 ELSE pen_down
    /\ before' = Snapshot
    /\ IF running
       THEN /\ HandleEvent(e)
            /\ ev' = e
            /\ UNCHANGED thread
       ELSE \* "if not self.running: break": the event is dropped
            /\ thread' = "exited"
            /\ ev' = NoEvent /\ fired' = <<>>
            /\ UNCHANGED <<touch_x, touch_y, is_touching, raw_x, raw_y>>
    /\ UNCHANGED <<swap_axes, running, touch_regions, m_in, m_out,
                   screen, hw, io, hist,
                   pixel, app, torn, player, gpio, pool>>

_read_events(e) == ReadStep(e) /\ UNCHANGED press

\* the same step with the bookkeeping of the press (SpecPress)
TrackedRead(e) ==
    /\ ReadStep(e)
    /\ press' = IF ev' = NoEvent THEN press
                ELSE PressAfter(e, fired', is_touching',
                                _map_coordinates(raw_x', raw_y'))

\* read_loop() raises (the device is gone): the except clause ends the thread
ReadError ==
    /\ thread = "reading"
    /\ thread' = "exited"
    /\ ev' = NoEvent /\ fired' = <<>> /\ before' = Snapshot
    /\ UNCHANGED <<swap_axes, running, touch_x, touch_y, is_touching, touch_regions,
                   raw_x, raw_y, pen_down, press, m_in, m_out,
                   screen, hw, io, hist,
                   pixel, app, torn, player, gpio, pool>>

\* TouchHandler.start, called once by MediaPlayerApp.initialize; the thread
\* begins _read_events with raw_x = raw_y = 0
start ==
    /\ thread = "none"
    /\ running' = TRUE
    /\ thread' = "reading"
    /\ raw_x' = 0 /\ raw_y' = 0
    /\ ev' = NoEvent /\ fired' = <<>> /\ before' = Snapshot
    /\ UNCHANGED <<swap_axes, touch_x, touch_y, is_touching, touch_regions,
                   pen_down, press, m_in, m_out,
                   screen, hw, io, hist,
                   pixel, app, torn, player, gpio, pool>>

\* TouchHandler.stop: clears running; the join returns after at most 1 s
stop ==
    /\ running' = FALSE
    /\ ev' = NoEvent /\ fired' = <<>> /\ before' = Snapshot
    /\ UNCHANGED <<swap_axes, thread, touch_x, touch_y, is_touching, touch_regions,
                   raw_x, raw_y, pen_down, press, m_in, m_out,
                   screen, hw, io, hist,
                   pixel, app, torn, player, gpio, pool>>

NoMapCase == [axis |-> "none", kind |-> "none", a |-> 0, b |-> 0, other |-> 0]

\* TouchHandler.__init__ with a touch device found, followed by the wiring of
\* on_touch_down, on_touch_up and on_touch_move (MediaPlayerApp.initialize);
\* the pen may already be down when the device is opened
Init ==
    /\ swap_axes \in BOOLEAN
    /\ running = FALSE
    /\ thread = "none"
    /\ touch_x = 0 /\ touch_y = 0
    /\ is_touching = FALSE
    /\ touch_regions = <<>>
    /\ raw_x = 0 /\ raw_y = 0
    /\ pen_down \in BOOLEAN
    /\ ev = NoEvent /\ fired = <<>>
    /\ before = [x |-> 0, y |-> 0, touching |-> FALSE]
    /\ press = NoPress
    /\ m_in = NoMapCase /\ m_out = <<>>
    /\ screen = NewScreen(240, 320) /\ hw = LinesAtBoot
    /\ io = NoOperation /\ hist = NoHistory
    /\ pixel = NoPixel /\ app = NewApp("open") /\ torn = NoTorn
    /\ player = NewPlayer /\ gpio = NewGpio /\ pool = NoPool

Next ==
    \/ \E e \in Events : _read_events(e)
    \/ ReadError
    \/ start
    \/ stop
    \/ \E name \in RegionNames, r \in Rects : register_region(name, r)
    \/ \E name \in RegionNames : unregister_region(name)
    \/ clear_regions

Spec == Init /\ [][Next]_vars

(***************************************************************************)
(* SpecPress: the sampler thread alone, with the bookkeeping of the press  *)
(* and with no region registered.                                          *)
(***************************************************************************)
NextPress ==
    \/ \E e \in Events : TrackedRead(e)
    \/ ReadError
    \/ start
    \/ stop

SpecPress == Init /\ [][NextPress]_vars

(***************************************************************************)
(* SpecMap: _map_coordinates as a function.  A case varies one raw axis:   *)
(* the raw values a and b on that axis, with the same value on the other   *)
(* axis, are both mapped.                                                  *)
(***************************************************************************)
Axes == {"x", "y"}
AxisMin(ax) == IF ax = "x" THEN RAW_X_MIN ELSE RAW_Y_MIN
AxisMax(ax) == IF ax = "x" THEN RAW_X_MAX ELSE RAW_Y_MAX

\* values of the axis that is held fixed: below, inside and above its range
OtherValues == {0, 2046, MaxRaw}

\* how the second raw value b of a case is chosen: the neighbour of a, or one
\* of the two ends of the calibration range
Kinds == {"next", "min", "max"}
SecondInput(ax, kind, a) ==
    IF kind = "next" THEN a + 1
    ELSE IF kind = "min" THEN AxisMin(ax) ELSE AxisMax(ax)

MapCase(ax, kind, a, o) ==
    [axis |-> ax, kind |-> kind, a |-> a, b |-> SecondInput(ax, kind, a), other |-> o]

\* the raw (x, y) of a case for the value v of its varied axis
RawOf(c, v) == IF c.axis = "x" THEN <<v, c.other>> ELSE <<c.other, v>>

\* which screen coordinate (1 = x, 2 = y) the varied raw axis feeds
Fed(c) == IF (c.axis = "x") = swap_axes THEN 2 ELSE 1
Dimension(i) == IF i = 1 THEN screen_width ELSE screen_height

MapCall ==
    /\ m_in # NoMapCase
    /\ m_out = <<>>
    /\ m_out' = << _map_coordinates(RawOf(m_in, m_in.a)[1], RawOf(m_in, m_in.a)[2]),
                   _map_coordinates(RawOf(m_in, m_in.b)[1], RawOf(m_in, m_in.b)[2]) >>
    /\ UNCHANGED <<swap_axes, running, thread, touch_x, touch_y, is_touching,
                   touch_regions, raw_x, raw_y, pen_down, ev, fired, before, press,
                   m_in, screen, hw, io, hist,
                         pixel, app, torn, player, gpio, pool>>

\* the next raw value of the varied axis
NextCase ==
    /\ m_out # <<>>
    /\ m_in.a < MaxRaw
    /\ m_in' = MapCase(m_in.axis, m_in.kind, m_in.a + 1, m_in.other)
    /\ m_out' = <<>>
    /\ UNCHANGED <<swap_axes, running, thread, touch_x, touch_y, is_touching,
                   touch_regions, raw_x, raw_y, pen_down, ev, fired, before, press,
                   screen, hw, io, hist,
                   pixel, app, torn, player, gpio, pool>>

InitMap ==
    /\ swap_axes \in BOOLEAN
    /\ running = FALSE
    /\ thread = "none"
    /\ touch_x = 0 /\ touch_y = 0
    /\ is_touching = FALSE
    /\ touch_regions = <<>>
    /\ raw_x = 0 /\ raw_y = 0
    /\ pen_down = FALSE
    /\ ev = NoEvent /\ fired = <<>>
    /\ before = [x |-> 0, y |-> 0, touching |-> FALSE]
    /\ press = NoPress
    /\ m_in \in {MapCase(ax, k, 0, o) : ax \in Axes, k \in Kinds, o \in OtherValues}
    /\ m_out = <<>>
    /\ screen = NewScreen(240, 320) /\ hw = LinesAtBoot
    /\ io = NoOperation /\ hist = NoHistory
    /\ pixel = NoPixel /\ app = NewApp("open") /\ torn = NoTorn
    /\ player = NewPlayer /\ gpio = NewGpio /\ pool = NoPool

NextMap ==
    \/ MapCall
    \/ NextCase

SpecMap == InitMap /\ [][NextMap]_vars

(***************************************************************************)
(* Display driver (display/screen.py).  An operation of Screen is run from *)
(* a start record o = [screen, hw, trace, ok, failAt]: screen and hw are   *)
(* the fields and the line levels so far, trace the line changes, sleeps   *)
(* and bus writes performed so far, ok is FALSE once an exception is       *)
(* propagating (every later step is then skipped), and failAt is the       *)
(* ordinal of the bus write at which the transport fails (0: never).       *)
(*                                                                         *)
(* gpiozero and spidev are the environment: a method of a closed device or *)
(* of None raises; a constructor on a pin held by an open device raises    *)
(* (GPIOPinInUse); close() of a closed device does nothing; writebytes on  *)
(* a SpiDev that is not open raises; PWMOutputDevice.value rejects a value *)
(* outside [0,1] (OutputDeviceBadValue) and OutputDevice.value drives the  *)
(* line by the truth of the value.  Brightness is counted in tenths.       *)
(***************************************************************************)
chunk_size == 4096

Event(k, by, h, v, bytes, from, to) ==
    [k |-> k, by |-> by, h |-> h, v |-> v, bytes |-> bytes, from |-> from, to |-> to]

Handle(s, h) ==
    CASE h = "rst" -> s.rst_device
      [] h = "dc"  -> s.dc_device
      [] h = "bl"  -> s.bl_device
      [] h = "spi" -> s.spi

WithHandle(s, h, st) ==
    CASE h = "rst" -> [s EXCEPT !.rst_device = st]
      [] h = "dc"  -> [s EXCEPT !.dc_device = st]
      [] h = "bl"  -> [s EXCEPT !.bl_device = st]
      [] h = "spi" -> [s EXCEPT !.spi = st]

Emit(o, e) == [o EXCEPT !.trace = Append(@, e)]
Raise(o) == [o EXCEPT !.ok = FALSE]

IsWrite(e) == e.k = "write"
WritesOf(trace) == SelectSeq(trace, IsWrite)
WriteLen(e) == e.to - e.from

\* device.on() / device.off() of the gpiozero device behind line h
Drive(o, by, h, v) ==
    IF ~o.ok THEN o
    ELSE IF Handle(o.screen, h) # "open" THEN Raise(o)
    ELSE [Emit(o, Event("line", by, h, v, <<>>, 0, 0)) EXCEPT !.hw[h] = v]

\* time.sleep, in milliseconds
sleep(o, by, ms) ==
    IF ~o.ok THEN o ELSE Emit(o, Event("sleep", by, "none", ms, <<>>, 0, 0))

\* faulty variant of writebytes: a failed transfer is attempted once more
WriteRetrying(o, by, bytes, from, to) ==
    IF ~o.ok THEN o
    ELSE IF o.screen.spi # "open" THEN Raise(o)
    ELSE IF Len(WritesOf(o.trace)) + 1 = o.failAt
         THEN Emit(Emit(o, Event("fault", by, "spi", o.hw.dc, <<>>, from, to)),
                   Event("write", by, "spi", o.hw.dc, bytes, from, to))
    ELSE Emit(o, Event("write", by, "spi", o.hw.dc, bytes, from, to))

\* spi.writebytes of the bytes [from, to) of the caller's buffer; v records
\* the level of the data/command line at the moment of the write
writebytes(o, by, bytes, from, to) ==
    IF ~o.ok THEN o
    ELSE IF o.screen.spi # "open" THEN Raise(o)
    ELSE IF Len(WritesOf(o.trace)) + 1 = o.failAt
         THEN Raise(Emit(o, Event("fault", by, "spi", o.hw.dc, <<>>, from, to)))
    ELSE Emit(o, Event("write", by, "spi", o.hw.dc, bytes, from, to))

\* the argument of _write_data: an int, a list of known bytes, or a buffer
\* of which only the length matters
IntData(b) == [kind |-> "int", bytes |-> <<b>>, len |-> 1]
ListData(bytes) == [kind |-> "list", bytes |-> bytes, len |-> Len(bytes)]
BulkData(n) == [kind |-> "bulk", bytes |-> <<>>, len |-> n]

\* data[from:to], a Python slice: it stops at the end of the buffer
SliceEnd(data, to) == Min(to, data.len)
Slice(data, from, to) ==
    IF data.kind = "bulk" THEN <<>> ELSE SubSeq(data.bytes, from + 1, SliceEnd(data, to))

\* faulty variant of WriteChunks: a trailing partial chunk is not sent
RECURSIVE WriteFullChunks(_, _, _, _, _)
WriteFullChunks(o, by, data, i, m) ==
    IF i + m > data.len \/ ~o.ok THEN o
    ELSE WriteFullChunks(writebytes(o, by, Slice(data, i, i + m), i, SliceEnd(data, i + m)),
                         by, data, i + m, m)

\* for i in range(i, len(data), m): spi.writebytes(list(data[i:i + m]))
RECURSIVE WriteChunks(_, _, _, _, _)
WriteChunks(o, by, data, i, m) ==
    IF i >= data.len \/ ~o.ok THEN o
    ELSE WriteChunks(writebytes(o, by, Slice(data, i, i + m), i, SliceEnd(data, i + m)),
                     by, data, i + m, m)

_write_command(o, cmd) ==
    writebytes(Drive(o, "_write_command", "dc", 0), "_write_command", <<cmd>>, 0, 1)

\* faulty variant of _write_data: long data goes out in one transfer
WriteDataUnchunked(o, data) ==
    LET d == Drive(o, "_write_data", "dc", 1)
    IN  writebytes(d, "_write_data", Slice(data, 0, data.len), 0, data.len)

\* faulty variant of _write_data: the select line is left as it is
WriteDataNoSelect(o, data) ==
    IF data.kind = "int"
    THEN writebytes(o, "_write_data", data.bytes, 0, 1)
    ELSE IF data.len <= 4096
    THEN writebytes(o, "_write_data", Slice(data, 0, data.len), 0, data.len)
    ELSE WriteChunks(o, "_write_data", data, 0, 4096)

_write_data(o, data) ==
    LET d == Drive(o, "_write_data", "dc", 1)
    IN  IF data.kind = "int"
        THEN writebytes(d, "_write_data", data.bytes, 0, 1)
        ELSE IF data.len <= 4096
        THEN writebytes(d, "_write_data", Slice(data, 0, data.len), 0, data.len)
        ELSE WriteChunks(d, "_write_data", data, 0, 4096)

_reset(o) ==
    LET a == sleep(Drive(o, "_reset", "rst", 1), "_reset", 100)
        b == sleep(Drive(a, "_reset", "rst", 0), "_reset", 100)
    IN  sleep(Drive(b, "_reset", "rst", 1), "_reset", 100)

\* the ILI9341 configuration: command, parameter bytes, sleep after the
\* command in milliseconds
Step(cmd, data, ms) == [cmd |-> cmd, data |-> data, ms |-> ms]
InitSequence ==
    << Step(1, <<>>, 150),               \* 0x01 software reset
       Step(40, <<>>, 0),                \* 0x28 display off
       Step(207, <<0, 131, 48>>, 0),     \* 0xCF
       Step(237, <<100, 3, 18, 129>>, 0),\* 0xED
       Step(232, <<133, 1, 121>>, 0),    \* 0xE8
       Step(203, <<57, 44, 0, 52, 2>>, 0),\* 0xCB
       Step(247, <<32>>, 0),             \* 0xF7
       Step(234, <<0, 0>>, 0),           \* 0xEA
       Step(192, <<38>>, 0),             \* 0xC0 power control
       Step(193, <<17>>, 0),             \* 0xC1 power control
       Step(197, <<53, 62>>, 0),         \* 0xC5 VCOM control
       Step(199, <<190>>, 0),            \* 0xC7 VCOM control
       Step(54, <<40>>, 0),              \* 0x36 memory access control
       Step(58, <<85>>, 0),              \* 0x3A pixel format 0x55
       Step(177, <<0, 27>>, 0),          \* 0xB1 frame rate
       Step(242, <<8>>, 0),              \* 0xF2 3Gamma function disable
       Step(38, <<1>>, 0),               \* 0x26 gamma curve
       Step(17, <<>>, 150),              \* 0x11 exit sleep
       Step(41, <<>>, 150) >>            \* 0x29 display on

RunStep(o, st) ==
    LET a == _write_command(o, st.cmd)
        b == IF st.ms > 0 THEN sleep(a, "_init_display", st.ms) ELSE a
    IN  IF st.data # <<>> THEN _write_data(b, ListData(st.data)) ELSE b

RECURSIVE RunSteps(_, _, _)
RunSteps(o, steps, i) ==
    IF i > Len(steps) \/ ~o.ok THEN o ELSE RunSteps(RunStep(o, steps[i]), steps, i + 1)

\* faulty variant of _init_display: nothing is waited for after display-on
InitDisplayNoSettle(o) == RunSteps(o, [InitSequence EXCEPT ![Len(InitSequence)].ms = 0], 1)

_init_display(o) == RunSteps(o, InitSequence, 1)

\* hasattr(None, 'value') is False and None.on() raises; reading .value of a
\* closed device raises; every open gpiozero device has .value
_set_backlight(o, on, brightness) ==
    IF ~o.ok THEN o
    ELSE IF o.screen.bl_device # "open" THEN Raise(o)
    ELSE LET value == IF on THEN brightness ELSE 0
             w == Emit(o, Event("value", "_set_backlight", "bl", value, <<>>, 0, 0))
         IN  IF o.screen.bl_kind = "pwm"
             THEN IF value \in 0..10 THEN [w EXCEPT !.hw.bl = value] ELSE Raise(w)
             ELSE [w EXCEPT !.hw.bl = IF value # 0 THEN 10 ELSE 0]

Hi(n) == (n \div 256) % 256
Lo(n) == n % 256

\* faulty variant of pixel_buffer: three bytes per pixel
PixelBuffer888(pixels) == BulkData(pixels * 3)

\* pixel_buffer = bytearray(len(pixels) * 2)
pixel_buffer(pixels) == BulkData(pixels * 2)

\* faulty variant of _display_image: the pixels go out after the memory-write
\* command alone, with no address window
DisplayImageNoWindow(o, image) ==
    IF ~o.ok \/ image = <<>> THEN Raise(o)
    ELSE LET e == _write_command(o, 44)
             f == Drive(e, "_display_image", "dc", 1)
         IN  WriteChunks(f, "_display_image", pixel_buffer(image[1] * image[2]), 0, chunk_size)

\* image is the size of the PIL image handed in, <<>> for None
_display_image(o, image) ==
    IF ~o.ok \/ image = <<>> THEN Raise(o)
    ELSE LET a == _write_command(o, 42)
             b == _write_data(a, ListData(<<0, 0, Hi(o.screen.width - 1), Lo(o.screen.width - 1)>>))
             c == _write_command(b, 43)
             d == _write_data(c, ListData(<<0, 0, Hi(o.screen.height - 1), Lo(o.screen.height - 1)>>))
             e == _write_command(d, 44)
             f == Drive(e, "_display_image", "dc", 1)
         IN  WriteChunks(f, "_display_image", pixel_buffer(image[1] * image[2]), 0, chunk_size)

\* gpiozero reserves a pin for the device that holds it until that device
\* is closed
PinAlwaysFree(s, h) == TRUE

PinFree(s, h) == Handle(s, h) # "open"

\* OutputDevice(pin, initial_value=True) / PWMOutputDevice(pin, initial_value=1.0)
New(o, h, fails, level) ==
    IF ~o.ok THEN o
    ELSE IF fails \/ ~PinFree(o.screen, h) THEN Raise(o)
    ELSE [Emit(o, Event("new", "initialize", h, level, <<>>, 0, 0))
            EXCEPT !.screen = WithHandle(@, h, "open"), !.hw[h] = level]

\* the backlight device: PWM, else the fallback to a simple output
NewBacklight(o, fault) ==
    LET pwm == New(o, "bl", fault \in {"pwm", "bl"}, 10)
        simple == New(o, "bl", fault = "bl", 10)
    IN  IF ~o.ok THEN o
        ELSE IF pwm.ok THEN [pwm EXCEPT !.screen.bl_kind = "pwm"]
        ELSE IF simple.ok THEN [simple EXCEPT !.screen.bl_kind = "simple"]
        ELSE simple

\* self.spi = spidev.SpiDev(); self.spi.open(0, 0)
OpenSpi(o, fault) ==
    IF ~o.ok THEN o
    ELSE LET made == [o EXCEPT !.screen.spi = "unopened"]
         IN  IF fault = "spi_open" THEN Raise(made)
             ELSE [Emit(made, Event("open", "initialize", "spi", 0, <<>>, 0, 0))
                     EXCEPT !.screen.spi = "open"]

InitializeBody(o, fault) ==
    LET a == New(o, "rst", fault = "rst", 1)
        b == New(a, "dc", fault = "dc", 1)
        c == NewBacklight(b, fault)
        d == OpenSpi(c, fault)
        e == _reset(d)
        f == _init_display(e)
        g == _set_backlight(f, TRUE, 10)
    IN  IF g.ok THEN [g EXCEPT !.screen.image = <<g.screen.width, g.screen.height>>]
        ELSE g

\* faulty variant of initialize: the exception is printed and not raised again
InitializeSwallowing(o, fault) == [InitializeBody(o, fault) EXCEPT !.ok = TRUE]

\* except Exception: the error is printed and raised again
initialize(o, fault) == InitializeBody(o, fault)

update_display(o) ==
    IF o.screen.image = <<>> THEN Raise(o) ELSE _display_image(o, o.screen.image)

clear_display(o) ==
    IF o.screen.image # <<>> THEN _display_image(o, o.screen.image) ELSE o

\* MediaPlayerUI.render
render(o) ==
    IF o.screen.image = <<>> THEN o ELSE _display_image(o, o.screen.image)

\* device.close() / spi.close()
Close(o, h) ==
    IF ~o.ok \/ Handle(o.screen, h) \in {"none", "closed"} THEN o
    ELSE [Emit(o, Event("close", "cleanup", h, 0, <<>>, 0, 0))
            EXCEPT !.screen = WithHandle(@, h, "closed")]

CleanupBody(o) ==
    LET a == _set_backlight(o, FALSE, 10)
        b == Close(a, "spi")
        c == Close(b, "rst")
        d == Close(c, "dc")
    IN  Close(d, "bl")

\* faulty variant of cleanup: an exception leaves the method
CleanupRaising(o) == CleanupBody(o)

\* except Exception: the error is printed and cleanup returns
cleanup(o) == [CleanupBody(o) EXCEPT !.ok = TRUE]

(***************************************************************************)
(* Operations of Screen as actions.  io records the operation; hist        *)
(* carries what the properties need from earlier operations.               *)
(***************************************************************************)
touchVars == <<swap_axes, running, thread, touch_x, touch_y, is_touching,
               touch_regions, raw_x, raw_y, pen_down, ev, fired, before, press,
               m_in, m_out>>

ScreenSizes == {<<240, 320>>, <<32, 64>>, <<300, 10>>}
InitFaults == {"none", "rst", "dc", "pwm", "bl", "spi_open"}
FailPoints == {0, 1, 6}
Brightness == {-5, 0, 5, 10, 15}
DataArgs ==
    {IntData(7), ListData(<<>>), ListData(<<1, 2, 3>>)}
    \cup {BulkData(n) : n \in {4096, 4097, 9000}}

Start(failAt) ==
    [screen |-> screen, hw |-> hw, trace |-> <<>>, ok |-> TRUE, failAt |-> failAt]

Finish(op, arg, fault, o, h) ==
    /\ screen' = o.screen
    /\ hw' = o.hw
    /\ io' = [op |-> op, result |-> IF o.ok THEN "returned" ELSE "raised",
              trace |-> o.trace, fault |-> fault, arg |-> arg,
              before |-> [screen |-> screen, hw |-> hw, hist |-> hist]]
    /\ hist' = h
    /\ UNCHANGED touchVars
    /\ UNCHANGED <<pixel, app, torn, player, gpio, pool>>

\* the two parameter blocks of the address window a push has sent
WindowOf(trace) ==
    LET w == WritesOf(trace)
    IN  IF Len(w) >= 4 THEN <<w[2].bytes, w[4].bytes>> ELSE <<>>

AfterPush(o) ==
    [hist EXCEPT !.window = IF WindowOf(o.trace) # <<>> THEN WindowOf(o.trace) ELSE @]

Initialize ==
    \/ \E fault \in InitFaults :
         \E o \in {initialize(Start(0), fault)} :
             Finish("initialize", <<>>, fault, o,
                    [hist EXCEPT !.ready = o.ok, !.cleaned = FALSE])
    \/ \E n \in FailPoints \ {0} :
         \E o \in {initialize(Start(n), "none")} :
             Finish("initialize", <<>>, "write", o,
                    [hist EXCEPT !.ready = o.ok, !.cleaned = FALSE])

Fault(n) == IF n = 0 THEN "none" ELSE "write"

DisplayImage ==
    \E n \in FailPoints :
        \E o \in {_display_image(Start(n), screen.image)} :
            Finish("_display_image", <<>>, Fault(n), o, AfterPush(o))

UpdateDisplay ==
    \E n \in FailPoints :
        \E o \in {update_display(Start(n))} :
            Finish("update_display", <<>>, Fault(n), o, AfterPush(o))

ClearDisplay ==
    \E n \in FailPoints :
        \E o \in {clear_display(Start(n))} :
            Finish("clear_display", <<>>, Fault(n), o, AfterPush(o))

Render ==
    \E n \in FailPoints :
        \E o \in {render(Start(n))} :
            Finish("render", <<>>, Fault(n), o, AfterPush(o))

SetBacklight ==
    \E on \in BOOLEAN, b \in Brightness :
        \E o \in {_set_backlight(Start(0), on, b)} :
            Finish("_set_backlight", <<on, b>>, "none", o, hist)

WriteData ==
    \E data \in DataArgs, n \in {0, 2} :
        \E o \in {_write_data(Start(n), data)} :
            Finish("_write_data", <<data>>, Fault(n), o, hist)

Cleanup ==
    \E o \in {cleanup(Start(0))} :
        Finish("cleanup", <<>>, "none", o,
               [hist EXCEPT !.ready = FALSE, !.cleaned = TRUE])

InitScreen ==
    /\ swap_axes = TRUE
    /\ running = FALSE
    /\ thread = "none"
    /\ touch_x = 0 /\ touch_y = 0
    /\ is_touching = FALSE
    /\ touch_regions = <<>>
    /\ raw_x = 0 /\ raw_y = 0
    /\ pen_down = FALSE
    /\ ev = NoEvent /\ fired = <<>>
    /\ before = [x |-> 0, y |-> 0, touching |-> FALSE]
    /\ press = NoPress
    /\ m_in = NoMapCase /\ m_out = <<>>
    /\ screen \in {NewScreen(d[1], d[2]) : d \in ScreenSizes}
    /\ hw = LinesAtBoot
    /\ io = NoOperation /\ hist = NoHistory
    /\ pixel = NoPixel /\ app = NewApp("open") /\ torn = NoTorn
    /\ player = NewPlayer /\ gpio = NewGpio /\ pool = NoPool

NextScreen ==
    \/ Initialize
    \/ DisplayImage
    \/ UpdateDisplay
    \/ ClearDisplay
    \/ Render
    \/ SetBacklight
    \/ WriteData
    \/ Cleanup

SpecScreen == InitScreen /\ [][NextScreen]_vars

(***************************************************************************)
(* Properties.                                                             *)
(***************************************************************************)
IsRegionCall(c) == c.cb = "region"
RegionCalls(calls) == SelectSeq(calls, IsRegionCall)
TouchCallbacks == {"on_touch_down", "on_touch_up", "on_touch_move"}

\* indices of the registered regions that contain the current touch point
Hits == {i \in 1..Len(touch_regions) : Contains(touch_regions[i], touch_x, touch_y)}

\* C1: after a touch-down at P = (touch_x, touch_y), if some registered region
\* contains P then exactly one region callback was invoked, that of the first
\* region in registration order containing P; if none contains P, none was.
C1_FirstMatchDispatch ==
    (ev = KeyEvent(1)) =>
        IF Hits = {}
        THEN RegionCalls(fired) = <<>>
        ELSE \E i \in Hits :
                /\ \A j \in Hits : i <= j
                /\ RegionCalls(fired) =
                       <<Call("region", touch_regions[i].name, touch_x, touch_y)>>

\* C1 witness: a down at a point inside two overlapping regions, the smaller one
\* registered first, fired only the first one's callback
C1_Witness ==
    /\ ev = KeyEvent(1)
    /\ Len(touch_regions) = 2
    /\ Hits = {1, 2}
    /\ touch_regions[1].width < touch_regions[2].width
    /\ RegionCalls(fired) =
           <<Call("region", touch_regions[1].name, touch_x, touch_y)>>

\* C2: on_touch_down is invoked only from is_touching = FALSE and sets it,
\* on_touch_up only from is_touching = TRUE and clears it, on_touch_move only
\* while is_touching.
C2_TwoStateMachine ==
    \A k \in 1..Len(fired) :
        /\ fired[k].cb = "on_touch_down" => (~before.touching /\ is_touching)
        /\ fired[k].cb = "on_touch_up" => (before.touching /\ ~is_touching)
        /\ fired[k].cb = "on_touch_move" => (before.touching /\ is_touching)

\* C3: when the sampler handles a release (BTN_TOUCH 0) during a press, it
\* clears is_touching and invokes on_touch_up exactly once, and nothing else.
C3_ReleaseHandled ==
    (ev = KeyEvent(0) /\ before.touching) =>
        /\ ~is_touching
        /\ fired = <<Call("on_touch_up", "", touch_x, touch_y)>>

\* C3 witness: a release handled after a down
C3_Witness ==
    /\ ev = KeyEvent(0)
    /\ before.touching
    /\ ~is_touching
    /\ Count("on_touch_up", fired) = 1

\* C4, first part: a sync while touching whose mapped point equals the current
\* one invokes nothing and leaves the touch state unchanged.
C4_SamePointSilent ==
    (ev = SynEvent /\ before.touching
        /\ _map_coordinates(raw_x, raw_y) = <<before.x, before.y>>) =>
            /\ fired = <<>>
            /\ Snapshot = before

\* C4, second part: two (or more) consecutive touching samples at one screen
\* point produced exactly one down and no move.
C4_OneDownNoMove ==
    (press.n >= 2 /\ press.same) => (press.downs = 1 /\ press.moves = 0)

\* C4, third part: a move never reports the point reported before it.
C4_MoveChangesPoint ==
    \A k \in 1..Len(fired) :
        fired[k].cb = "on_touch_move" =>
            <<fired[k].x, fired[k].y>> # <<before.x, before.y>>

\* C4: move events are deduplicated (the three parts together)
C4_MoveDedup == C4_SamePointSilent /\ C4_OneDownNoMove /\ C4_MoveChangesPoint

\* C5: every down, move and up is emitted at a sync boundary, and reports the
\* mapping of the raw X and Y of that frame.
C5_SyncedSamplesOnly ==
    \A k \in 1..Len(fired) :
        fired[k].cb \in TouchCallbacks =>
            /\ ev = SynEvent
            /\ <<fired[k].x, fired[k].y>> = _map_coordinates(raw_x, raw_y)

\* C6: no region callback is invoked by a step that is not a touch-down (a
\* move, an up, an axis update, a sync without change).
C6_RegionsOnlyOnDown ==
    (ev # KeyEvent(1)) => RegionCalls(fired) = <<>>

\* C6 witness: a move to a point inside a registered region fired no region
\* callback
C6_Witness ==
    /\ ev = SynEvent
    /\ Count("on_touch_move", fired) = 1
    /\ Hits # {}
    /\ RegionCalls(fired) = <<>>

\* C7: every mapped point is on screen.
C7_MappedOnScreen ==
    \A k \in 1..Len(m_out) :
        /\ 0 <= m_out[k][1] /\ m_out[k][1] < screen_width
        /\ 0 <= m_out[k][2] /\ m_out[k][2] < screen_height

\* C8: the calibration minimum of an axis maps to pixel 0 and the calibration
\* maximum to dimension - 1, on the screen axis that the raw axis feeds.
C8_EndPoints ==
    \A k \in 1..Len(m_out) :
        LET v == IF k = 1 THEN m_in.a ELSE m_in.b IN
        /\ v = AxisMin(m_in.axis) => m_out[k][Fed(m_in)] = 0
        /\ v = AxisMax(m_in.axis) => m_out[k][Fed(m_in)] = Dimension(Fed(m_in)) - 1

\* C9: a raw value below the axis minimum maps as the minimum does, and one
\* above the axis maximum as the maximum does, whatever the other axis is.
C9_ClampNotExtrapolate ==
    (m_out # <<>>) =>
        /\ (m_in.b = AxisMin(m_in.axis) /\ m_in.a < m_in.b) => m_out[1] = m_out[2]
        /\ (m_in.b = AxisMax(m_in.axis) /\ m_in.a > m_in.b) => m_out[1] = m_out[2]

\* C9 witness: a raw value above the maximum was mapped together with the maximum
C9_Witness ==
    /\ m_out # <<>>
    /\ m_in.b = AxisMax(m_in.axis)
    /\ m_in.a > m_in.b
    /\ m_out[1] = m_out[2]

\* C10: the mapping is monotonic in each raw axis, on the screen axis it feeds.
C10_Monotonic ==
    (m_out # <<>>) =>
        /\ m_in.a <= m_in.b => m_out[1][Fed(m_in)] <= m_out[2][Fed(m_in)]
        /\ m_in.b <= m_in.a => m_out[2][Fed(m_in)] <= m_out[1][Fed(m_in)]

\* C10 witness: a larger raw value inside the range mapped to a larger pixel
C10_Witness ==
    /\ m_out # <<>>
    /\ AxisMin(m_in.axis) < m_in.a
    /\ m_in.a < m_in.b
    /\ m_out[1][Fed(m_in)] < m_out[2][Fed(m_in)]

(***************************************************************************)
(* SpecPixel: the RGB565 packing of _display_image as a function of one    *)
(* pixel.  A case varies one channel over 0..MaxChannel with the two       *)
(* others held at sample values.  Python's &, |, << and >> on non-negative *)
(* integers are computed bit by bit.                                       *)
(***************************************************************************)
\* a channel of an 'RGB' image and an element of a bytearray are bytes
MaxChannel == 255

RECURSIVE BitAnd(_, _)
BitAnd(a, b) ==
    IF a = 0 \/ b = 0 THEN 0
    ELSE (a % 2) * (b % 2) + 2 * BitAnd(a \div 2, b \div 2)

RECURSIVE BitOr(_, _)
BitOr(a, b) ==
    IF a = 0 THEN b
    ELSE IF b = 0 THEN a
    ELSE Max(a % 2, b % 2) + 2 * BitOr(a \div 2, b \div 2)

Shl(a, n) == a * 2^n
Shr(a, n) == a \div 2^n

\* faulty variant of rgb565: green keeps five bits, as red and blue do
Rgb565CoarseGreen(r, g, b) ==
    BitOr(BitOr(Shl(BitAnd(r, 248), 8), Shl(BitAnd(g, 248), 3)), Shr(b, 3))

\* rgb565 = ((r & 0xF8) << 8) | ((g & 0xFC) << 3) | (b >> 3)
rgb565(r, g, b) ==
    BitOr(BitOr(Shl(BitAnd(r, 248), 8), Shl(BitAnd(g, 252), 3)), Shr(b, 3))

\* faulty variant of PackPixel: the low byte is stored first
PackLowFirst(r, g, b) == <<BitAnd(rgb565(r, g, b), 255), Shr(rgb565(r, g, b), 8)>>

\* pixel_buffer[i * 2] = rgb565 >> 8; pixel_buffer[i * 2 + 1] = rgb565 & 0xFF
PackPixel(r, g, b) == <<Shr(rgb565(r, g, b), 8), BitAnd(rgb565(r, g, b), 255)>>

\* values of the two channels that a case holds fixed
ChannelSamples == {0, 3, 7, 128, MaxChannel}

Channels == 1..3

\* the pixel of a case: v on the varied channel, o1 and o2 on the others
PixelOf(axis, v, o1, o2) ==
    IF axis = 1 THEN <<v, o1, o2>>
    ELSE IF axis = 2 THEN <<o1, v, o2>>
    ELSE <<o1, o2, v>>

otherVars ==
    <<swap_axes, running, thread, touch_x, touch_y, is_touching, touch_regions,
      raw_x, raw_y, pen_down, ev, fired, before, press, m_in, m_out,
      screen, hw, io, hist>>

\* the loop body of _display_image for one pixel
Pack ==
    /\ pixel.rgb # <<>>
    /\ pixel.bytes = <<>>
    /\ pixel' = [pixel EXCEPT !.bytes = PackPixel(pixel.rgb[1], pixel.rgb[2], pixel.rgb[3])]
    /\ UNCHANGED <<otherVars, app, torn, player, gpio, pool>>

\* the next value of the varied channel
NextPixel ==
    /\ pixel.bytes # <<>>
    /\ pixel.rgb[pixel.axis] < MaxChannel
    /\ pixel' = [pixel EXCEPT !.rgb[pixel.axis] = @ + 1, !.bytes = <<>>]
    /\ UNCHANGED <<otherVars, app, torn, player, gpio, pool>>

InitPixel ==
    /\ swap_axes = TRUE
    /\ running = FALSE
    /\ thread = "none"
    /\ touch_x = 0 /\ touch_y = 0
    /\ is_touching = FALSE
    /\ touch_regions = <<>>
    /\ raw_x = 0 /\ raw_y = 0
    /\ pen_down = FALSE
    /\ ev = NoEvent /\ fired = <<>>
    /\ before = [x |-> 0, y |-> 0, touching |-> FALSE]
    /\ press = NoPress
    /\ m_in = NoMapCase /\ m_out = <<>>
    /\ screen = NewScreen(240, 320) /\ hw = LinesAtBoot
    /\ io = NoOperation /\ hist = NoHistory
    /\ pixel \in {[rgb |-> PixelOf(a, 0, o1, o2), bytes |-> <<>>, axis |-> a] :
                    a \in Channels, o1 \in ChannelSamples, o2 \in ChannelSamples}
    /\ app = NewApp("open") /\ torn = NoTorn
    /\ player = NewPlayer /\ gpio = NewGpio /\ pool = NoPool

NextPixelSpec ==
    \/ Pack
    \/ NextPixel

SpecPixel == InitPixel /\ [][NextPixelSpec]_vars

(***************************************************************************)
(* SpecApp: MediaPlayerApp (main.py) around the touch handler and the      *)
(* display.  The main thread runs initialize(), the loop of run() and      *)
(* cleanup(); the sampler thread runs _read_events and, inside it, the     *)
(* callbacks the application wired to down, up and move.  A callback is    *)
(* run on a record w = [app, o]: the application state and a start record  *)
(* of the display driver, so that what a callback does to the display, if  *)
(* anything, is applied by the thread that runs it.                        *)
(*                                                                         *)
(* app.main: "new", "loop" (inside run), "cleanup" (cleanup entered),      *)
(* "joining" (inside thread.join of TouchHandler.stop), "closing" (join    *)
(* returned), "done".  The touch device delivers events only while it is   *)
(* open; what a read blocked on a device closed by another thread does is  *)
(* not specified, it may fail or stay blocked.                             *)
(***************************************************************************)
SCREEN_WIDTH == 240
PADDING == 8
BUTTON_SIZE == 56
SMALL_BUTTON_SIZE == 40

Component(name, x, y, width, height, action) ==
    [name |-> name, x |-> x, y |-> y, width |-> width, height |-> height,
     action |-> action]

\* MediaPlayerUI._create_components: the components that handle a touch, in
\* the order of the components dict (the progress bar handles none), each
\* with the player action its callback leads to
Components ==
    << Component("btn_prev", SCREEN_WIDTH \div 2 - BUTTON_SIZE - BUTTON_SIZE \div 2 - PADDING,
                 140, BUTTON_SIZE, BUTTON_SIZE, "previous"),
       Component("btn_play", SCREEN_WIDTH \div 2 - BUTTON_SIZE \div 2,
                 140 - 4, BUTTON_SIZE + 8, BUTTON_SIZE + 8, "play_pause"),
       Component("btn_next", SCREEN_WIDTH \div 2 + BUTTON_SIZE \div 2 + PADDING,
                 140, BUTTON_SIZE, BUTTON_SIZE, "next"),
       Component("volume", PADDING + 30, 230, SCREEN_WIDTH - 2 * PADDING - 30, 24,
                 "set_volume"),
       Component("btn_stop", PADDING, 280, SMALL_BUTTON_SIZE + 20, SMALL_BUTTON_SIZE,
                 "stop") >>

contains_point(c, px, py) ==
    /\ c.x <= px /\ px < c.x + c.width
    /\ c.y <= py /\ py < c.y + c.height

\* the first component from index i on that contains the point, 0 if none
RECURSIVE FirstHit(_, _, _)
FirstHit(i, x, y) ==
    IF i > Len(Components) THEN 0
    ELSE IF contains_point(Components[i], x, y) THEN i
    ELSE FirstHit(i + 1, x, y)

\* MediaPlayerUI.handle_touch: the first component that takes the press is
\* marked and its callback calls the player
handle_touch(w, x, y) ==
    IF FirstHit(1, x, y) = 0
    THEN [w EXCEPT !.app.action = "none"]
    ELSE [w EXCEPT !.app.hit = Components[FirstHit(1, x, y)].name,
                   !.app.action = Components[FirstHit(1, x, y)].action]

\* MediaPlayerUI.handle_release
handle_release(w) == [w EXCEPT !.app.hit = "none", !.app.action = "none"]

\* faulty variant of _on_touch_down: the callback also renders the UI
OnTouchDownRendering(w, x, y) ==
    [handle_touch(w, x, y) EXCEPT !.o = render(@)]

_on_touch_down(w, x, y) == handle_touch(w, x, y)

_on_touch_up(w, x, y) == handle_release(w)

\* the volume slider alone is offered the point
_on_touch_move(w, x, y) ==
    IF contains_point(Components[4], x, y)
    THEN [w EXCEPT !.app.hit = "volume", !.app.action = "set_volume"]
    ELSE [w EXCEPT !.app.action = "none"]

\* the callbacks of one event, in the order the sampler invoked them
RECURSIVE RunCallbacks(_, _, _)
RunCallbacks(w, calls, i) ==
    IF i > Len(calls) THEN w
    ELSE LET c == calls[i]
             v == IF c.cb = "on_touch_down" THEN _on_touch_down(w, c.x, c.y)
                  ELSE IF c.cb = "on_touch_up" THEN _on_touch_up(w, c.x, c.y)
                  ELSE IF c.cb = "on_touch_move" THEN _on_touch_move(w, c.x, c.y)
                  ELSE w
         IN  RunCallbacks(v, calls, i + 1)

UsesTransport(e) == e.k \in {"write", "fault"} \/ (e.k = "line" /\ e.h = "dc")

\* the threads that have used the transport, after thread who did trace
UsersAfter(users, trace, who) ==
    IF SelectSeq(trace, UsesTransport) # <<>> THEN users \cup {who} ELSE users

\* faulty variant of TouchStart: the thread is started without a device
TouchStartAlways(dev) == [ret |-> "True", running |-> TRUE, thread |-> "reading"]

\* TouchHandler.start: what it returns ("True" or "False") and leaves in
\* running and thread
TouchStart(dev) ==
    IF dev = "none"
    THEN [ret |-> "False", running |-> FALSE, thread |-> "none"]
    ELSE [ret |-> "True", running |-> TRUE, thread |-> "reading"]

samplerVars == <<touch_x, touch_y, is_touching, raw_x, raw_y, fired>>
idleVars ==
    <<swap_axes, touch_regions, before, press, m_in, m_out, io, pixel, torn,
      player, gpio, pool>>

\* the components MediaPlayerApp.initialize has assigned when it ends: fault
\* "vlc" or "gpio" is the constructor of the player or of the buttons raising
CreatedAt(fault) ==
    CASE fault = "spi_open" -> {"screen"}
      [] fault = "vlc"      -> {"screen", "ui"}
      [] fault = "gpio"     -> {"screen", "ui", "vlc"}
      [] fault = "none"     -> {"screen", "ui", "vlc", "gpio", "touch"}

\* MediaPlayerApp.initialize: the display, the UI, the player and the
\* buttons, then the touch handler
AppInitialize ==
    /\ app.main = "new"
    /\ \E fault \in {"none", "spi_open", "vlc", "gpio"} :
       \E o \in {initialize(Start(0), IF fault = "spi_open" THEN fault ELSE "none")} :
       \E st \in {TouchStart(app.device)} :
          /\ screen' = o.screen
          /\ hw' = o.hw
          /\ hist' = [hist EXCEPT !.ready = o.ok, !.cleaned = FALSE]
          /\ IF o.ok /\ fault = "none"
             THEN /\ running' = st.running
                  /\ thread' = st.thread
                  /\ app' = [app EXCEPT !.main = "loop", !.started = st.ret,
                                        !.created = CreatedAt(fault),
                                        !.spi_users = UsersAfter(@, o.trace, "main")]
             ELSE /\ UNCHANGED <<running, thread>>
                  /\ app' = [app EXCEPT !.main = "cleanup",
                                        !.created = CreatedAt(fault),
                                        !.spi_users = UsersAfter(@, o.trace, "main")]
    /\ UNCHANGED <<samplerVars, pen_down, ev, idleVars>>

\* one iteration of the loop of run(): the UI is rendered; an exception is
\* printed and the loop goes on
AppLoop ==
    /\ app.main = "loop"
    /\ \E n \in {0, 6} :
       \E o \in {render(Start(n))} :
          /\ screen' = o.screen
          /\ hw' = o.hw
          /\ hist' = AfterPush(o)
          /\ app' = [app EXCEPT !.last_render = IF o.ok /\ WritesOf(o.trace) # <<>>
                                                THEN "ok" ELSE "failed",
                                !.spi_users = UsersAfter(@, o.trace, "main")]
    /\ UNCHANGED <<running, thread, samplerVars, pen_down, ev, idleVars>>

\* KeyboardInterrupt in run(): main() goes to its finally clause
Interrupt ==
    /\ app.main = "loop"
    /\ app' = [app EXCEPT !.main = "cleanup"]
    /\ UNCHANGED <<running, thread, samplerVars, pen_down, ev, idleVars, screen, hw, hist>>

\* MediaPlayerApp.cleanup up to the join inside TouchHandler.stop
CleanupTouch ==
    /\ app.main = "cleanup"
    /\ IF "touch" \notin app.created
       THEN /\ app' = [app EXCEPT !.main = "closing"]
            /\ UNCHANGED running
       ELSE /\ running' = FALSE
            /\ app' = [app EXCEPT !.main = IF thread # "none" THEN "joining" ELSE "closing",
                                  !.cleaned = Append(@, "touch")]
    /\ UNCHANGED <<thread, samplerVars, pen_down, ev, idleVars, screen, hw, hist>>

\* faulty variant of JoinReturn: join() without a timeout
JoinNoTimeout ==
    /\ app.main = "joining"
    /\ thread = "exited"
    /\ app' = [app EXCEPT !.main = "closing"]
    /\ UNCHANGED <<running, thread, samplerVars, pen_down, ev, idleVars, screen, hw, hist>>

\* self.thread.join(timeout=1.0) returns: the thread has ended or one second
\* has passed
JoinReturn ==
    /\ app.main = "joining"
    /\ app' = [app EXCEPT !.main = "closing"]
    /\ UNCHANGED <<running, thread, samplerVars, pen_down, ev, idleVars, screen, hw, hist>>

\* the components cleaned up after the touch handler, in the order of cleanup()
AfterTouch == <<"gpio", "vlc", "screen">>

\* faulty variant of Attempted: the first cleanup that raises ends cleanup()
RECURSIVE AttemptedUntilFailure(_, _, _, _)
AttemptedUntilFailure(created, fails, stopped, i) ==
    IF i > Len(AfterTouch) \/ stopped THEN <<>>
    ELSE IF AfterTouch[i] \in created
         THEN <<AfterTouch[i]>>
              \o AttemptedUntilFailure(created, fails, AfterTouch[i] \in fails, i + 1)
         ELSE AttemptedUntilFailure(created, fails, stopped, i + 1)

\* the cleanups cleanup() calls from component i of AfterTouch on: every
\* component that was created, each inside its own try/except; stopped tells
\* that the cleanup before raised, fails which cleanups raise
RECURSIVE Attempted(_, _, _, _)
Attempted(created, fails, stopped, i) ==
    IF i > Len(AfterTouch) THEN <<>>
    ELSE IF AfterTouch[i] \in created
         THEN <<AfterTouch[i]>> \o Attempted(created, fails, AfterTouch[i] \in fails, i + 1)
         ELSE Attempted(created, fails, stopped, i + 1)

InSeq(x, q) == \E i \in 1..Len(q) : q[i] = x

\* the rest of cleanup: the touch device is closed, then the buttons, the
\* player and the display are cleaned up; any of these but the display's may
\* raise into cleanup()
CleanupRest ==
    /\ app.main = "closing"
    /\ \E fails \in SUBSET (app.created \cap {"touch", "gpio", "vlc"}) :
       \E calls \in {Attempted(app.created, fails, "touch" \in fails, 1)} :
       \E o \in {IF InSeq("screen", calls) THEN cleanup(Start(0)) ELSE Start(0)} :
          /\ screen' = o.screen
          /\ hw' = o.hw
          /\ hist' = IF InSeq("screen", calls)
                     THEN [hist EXCEPT !.ready = FALSE, !.cleaned = TRUE] ELSE hist
          /\ app' = [app EXCEPT !.main = "done",
                                !.device = IF @ = "open" /\ "touch" \in app.created
                                           THEN "closed" ELSE @,
                                !.cleaned = @ \o calls,
                                !.failed = fails,
                                !.spi_users = UsersAfter(@, o.trace, "main")]
    /\ UNCHANGED <<running, thread, samplerVars, pen_down, ev, idleVars>>

\* one iteration of the loop of _read_events with the application's callbacks
AppRead(e) ==
    /\ thread = "reading"
    /\ app.device = "open"
    /\ DeviceCanEmit(e)
    /\ pen_down' = IF IsTouchKey(e) THEN e.value = 1 ELSE pen_down
    /\ IF running
       THEN /\ HandleEvent(e)
            /\ ev' = e
            /\ UNCHANGED thread
            /\ \E w \in {RunCallbacks([app |-> app, o |-> Start(0)], fired', 1)} :
                  /\ app' = [w.app EXCEPT !.spi_users = UsersAfter(@, w.o.trace, "sampler")]
                  /\ screen' = w.o.screen
                  /\ hw' = w.o.hw
                  /\ hist' = IF w.o.trace # <<>> THEN AfterPush(w.o) ELSE hist
       ELSE /\ thread' = "exited"
            /\ ev' = NoEvent
            /\ app' = [app EXCEPT !.cause = "break", !.last_render = "none"]
            /\ UNCHANGED <<samplerVars, screen, hw, hist>>
    /\ UNCHANGED <<running, idleVars>>

\* faulty variant of AppReadError: the exception leaves _read_events
ReadErrorUncaught ==
    /\ thread = "reading"
    /\ thread' = "crashed"
    /\ ev' = NoEvent
    /\ app' = [app EXCEPT !.cause = "error", !.last_render = "none"]
    /\ UNCHANGED <<running, samplerVars, pen_down, idleVars, screen, hw, hist>>

\* read_loop() raises: the except clause prints (if running) and the thread
\* function returns
AppReadError ==
    /\ thread = "reading"
    /\ thread' = "exited"
    /\ ev' = NoEvent
    /\ app' = [app EXCEPT !.cause = "error", !.last_render = "none"]
    /\ UNCHANGED <<running, samplerVars, pen_down, idleVars, screen, hw, hist>>

InitApp ==
    /\ swap_axes = TRUE
    /\ running = FALSE
    /\ thread = "none"
    /\ touch_x = 0 /\ touch_y = 0
    /\ is_touching = FALSE
    /\ touch_regions = <<>>
    /\ raw_x = 0 /\ raw_y = 0
    /\ pen_down \in BOOLEAN
    /\ ev = NoEvent /\ fired = <<>>
    /\ before = [x |-> 0, y |-> 0, touching |-> FALSE]
    /\ press = NoPress
    /\ m_in = NoMapCase /\ m_out = <<>>
    /\ screen = NewScreen(screen_width, screen_height) /\ hw = LinesAtBoot
    /\ io = NoOperation /\ hist = NoHistory
    /\ pixel = NoPixel /\ torn = NoTorn
    /\ player = NewPlayer /\ gpio = NewGpio /\ pool = NoPool
    /\ app \in {NewApp(dev) : dev \in {"none", "open"}}

NextApp ==
    \/ AppInitialize
    \/ AppLoop
    \/ Interrupt
    \/ CleanupTouch
    \/ JoinReturn
    \/ CleanupRest
    \/ \E e \in Events : AppRead(e)
    \/ AppReadError

SpecApp == InitApp /\ [][NextApp]_vars

\* the main thread goes on: a join that can return does, and cleanup goes on
\* after it; the input device owes no event
SpecAppLive == SpecApp /\ WF_vars(JoinReturn) /\ WF_vars(CleanupRest)

(***************************************************************************)
(* SpecTorn: the sampler's stores to (touch_x, touch_y, is_touching) one   *)
(* attribute at a time, against a thread that reads the three attributes.  *)
(* TouchHandler holds no lock and offers no accessor: a reader loads the   *)
(* attributes one after another, and the tuple assignment                  *)
(*   self.touch_x, self.touch_y = ...                                      *)
(* is two stores.  torn.wpc is where the sampler is inside a statement     *)
(* (0 between statements, 1 touch_x stored, 2 touch_y stored and           *)
(* is_touching pending), torn.new the values being stored, torn.rpc how    *)
(* many attributes the reader has loaded, torn.seen what it loaded, and    *)
(* torn.published the triples the attributes held at the end of any        *)
(* statement of the sampler; torn.n counts the statements begun, up to     *)
(* MaxStatements.                                                          *)
(***************************************************************************)
MaxStatements == 4

tornIdle ==
    <<swap_axes, running, thread, touch_regions, pen_down, ev, fired, before,
      press, m_in, m_out, screen, hw, io, hist, pixel, app, player, gpio, pool>>

\* EV_ABS: a local of _read_events is set
TornAxis(e) ==
    /\ torn.wpc = 0
    /\ e.type = "EV_ABS" /\ e.code \in {"ABS_X", "ABS_Y"}
    /\ raw_x' = IF e.code = "ABS_X" THEN e.value ELSE raw_x
    /\ raw_y' = IF e.code = "ABS_Y" THEN e.value ELSE raw_y
    /\ UNCHANGED <<touch_x, touch_y, is_touching, torn, tornIdle>>

\* BTN_TOUCH 1: the first store of the tuple assignment
TornDown ==
    /\ torn.wpc = 0
    /\ torn.n < MaxStatements
    /\ ~is_touching
    /\ touch_x' = _map_coordinates(raw_x, raw_y)[1]
    /\ torn' = [torn EXCEPT !.wpc = 1, !.stmt = "down", !.n = @ + 1,
                            !.new = <<_map_coordinates(raw_x, raw_y)[1],
                                      _map_coordinates(raw_x, raw_y)[2], TRUE>>]
    /\ UNCHANGED <<touch_y, is_touching, raw_x, raw_y, tornIdle>>

\* EV_SYN while touching, at a new point: the first store of the tuple
\* assignment
TornMove ==
    /\ torn.wpc = 0
    /\ torn.n < MaxStatements
    /\ is_touching
    /\ _map_coordinates(raw_x, raw_y) # <<touch_x, touch_y>>
    /\ touch_x' = _map_coordinates(raw_x, raw_y)[1]
    /\ torn' = [torn EXCEPT !.wpc = 1, !.stmt = "move", !.n = @ + 1,
                            !.new = <<_map_coordinates(raw_x, raw_y)[1],
                                      _map_coordinates(raw_x, raw_y)[2], TRUE>>]
    /\ UNCHANGED <<touch_y, is_touching, raw_x, raw_y, tornIdle>>

\* the second store of the tuple assignment, which ends the statement
StoreY ==
    /\ torn.wpc = 1
    /\ touch_y' = torn.new[2]
    /\ torn' = [torn EXCEPT !.wpc = IF torn.stmt = "down" THEN 2 ELSE 0,
                            !.published = @ \cup {<<touch_x, torn.new[2], is_touching>>}]
    /\ UNCHANGED <<touch_x, is_touching, raw_x, raw_y, tornIdle>>

\* self.is_touching = True
StoreContact ==
    /\ torn.wpc = 2
    /\ is_touching' = TRUE
    /\ torn' = [torn EXCEPT !.wpc = 0,
                            !.published = @ \cup {<<touch_x, touch_y, TRUE>>}]
    /\ UNCHANGED <<touch_x, touch_y, raw_x, raw_y, tornIdle>>

\* BTN_TOUCH 0: self.is_touching = False
TornUp ==
    /\ torn.wpc = 0
    /\ torn.n < MaxStatements
    /\ is_touching
    /\ is_touching' = FALSE
    /\ torn' = [torn EXCEPT !.n = @ + 1,
                            !.published = @ \cup {<<touch_x, touch_y, FALSE>>}]
    /\ UNCHANGED <<touch_x, touch_y, raw_x, raw_y, tornIdle>>

\* the reader loads touch_x, then touch_y, then is_touching
LoadX ==
    /\ torn.rpc \in {0, 3}
    /\ torn' = [torn EXCEPT !.rpc = 1, !.seen = <<touch_x, @[2], @[3]>>]
    /\ UNCHANGED <<touch_x, touch_y, is_touching, raw_x, raw_y, tornIdle>>

LoadY ==
    /\ torn.rpc = 1
    /\ torn' = [torn EXCEPT !.rpc = 2, !.seen = <<@[1], touch_y, @[3]>>]
    /\ UNCHANGED <<touch_x, touch_y, is_touching, raw_x, raw_y, tornIdle>>

LoadContact ==
    /\ torn.rpc = 2
    /\ torn' = [torn EXCEPT !.rpc = 3, !.seen = <<@[1], @[2], is_touching>>]
    /\ UNCHANGED <<touch_x, touch_y, is_touching, raw_x, raw_y, tornIdle>>

InitTorn ==
    /\ swap_axes = TRUE
    /\ running = TRUE
    /\ thread = "reading"
    /\ touch_x = 0 /\ touch_y = 0
    /\ is_touching = FALSE
    /\ touch_regions = <<>>
    /\ raw_x = 0 /\ raw_y = 0
    /\ pen_down = FALSE
    /\ ev = NoEvent /\ fired = <<>>
    /\ before = [x |-> 0, y |-> 0, touching |-> FALSE]
    /\ press = NoPress
    /\ m_in = NoMapCase /\ m_out = <<>>
    /\ screen = NewScreen(screen_width, screen_height) /\ hw = LinesAtBoot
    /\ io = NoOperation /\ hist = NoHistory
    /\ pixel = NoPixel /\ app = NewApp("open")
    /\ torn = NoTorn
    /\ player = NewPlayer /\ gpio = NewGpio /\ pool = NoPool

NextTorn ==
    \/ \E e \in Events : TornAxis(e)
    \/ TornDown
    \/ TornMove
    \/ StoreY
    \/ StoreContact
    \/ TornUp
    \/ LoadX
    \/ LoadY
    \/ LoadContact

SpecTorn == InitTorn /\ [][NextTorn]_vars

(***************************************************************************)
(* SpecPlayer: VLCController (src/vlc/controller.py) with the status the   *)
(* main loop copies into the UI (MediaPlayerApp.update_ui_state), and      *)
(* SpecGpio: GPIOHandler (src/input/gpio.py) driving the controller.       *)
(* libvlc is the environment: player.state is what player.get_state()      *)
(* returns, one of the enumerators of vlc.State; play() on a player with   *)
(* media leads to Opening and later Playing, a track that has played to    *)
(* its end gives Ended, and an unreadable one Error.  media_list holds     *)
(* track numbers; a directory is given by the number of media files in it. *)
(***************************************************************************)
MaxTracks == 3

States ==
    {"State.NothingSpecial", "State.Opening", "State.Buffering", "State.Playing",
     "State.Paused", "State.Stopped", "State.Ended", "State.Error"}

\* the dict state_str of get_status
state_str(st) ==
    CASE st = "State.NothingSpecial" -> "Idle"
      [] st = "State.Opening"        -> "Opening"
      [] st = "State.Buffering"      -> "Buffering"
      [] st = "State.Playing"        -> "Playing"
      [] st = "State.Paused"         -> "Paused"
      [] st = "State.Stopped"        -> "Stopped"
      [] st = "State.Ended"          -> "Ended"
      [] st = "State.Error"          -> "Error"
      [] OTHER                       -> "Unknown"

\* VLCController.play: a paused player is resumed, any other is started
play(pl) ==
    IF pl.state = "State.Paused" THEN [pl EXCEPT !.state = "State.Playing"]
    ELSE IF pl.media_list = <<>> THEN pl
    ELSE [pl EXCEPT !.state = "State.Opening"]

\* VLCController.pause
pause(pl) ==
    IF pl.state = "State.Playing" THEN [pl EXCEPT !.state = "State.Paused"] ELSE pl

\* VLCController.stop
vlc_stop(pl) == [pl EXCEPT !.state = "State.Stopped"]

\* VLCController.load_media_directory on a directory with n media files;
\* a path that does not exist changes nothing
load_media_directory(pl, exists, n) ==
    IF ~exists THEN pl ELSE [pl EXCEPT !.media_list = [i \in 1..n |-> i]]

\* VLCController.next; loaded tells whether load_media found the file
next(pl, loaded) ==
    IF pl.media_list = <<>> THEN pl
    ELSE LET moved == [pl EXCEPT !.current_index = (@ + 1) % Len(pl.media_list)]
         IN  IF loaded THEN play(moved) ELSE moved

\* VLCController.previous
previous(pl, loaded) ==
    IF pl.media_list = <<>> THEN pl
    ELSE LET moved == [pl EXCEPT !.current_index = (@ - 1) % Len(pl.media_list)]
         IN  IF loaded THEN play(moved) ELSE moved

\* VLCController.get_status: the index into media_list raises when it is out
\* of range, and the except clause answers with the error status
get_status(pl) ==
    IF pl.media_list # <<>> /\ pl.current_index >= Len(pl.media_list)
    THEN [state |-> "Error", current_track |-> 0]
    ELSE [state |-> state_str(pl.state),
          current_track |-> IF pl.media_list = <<>> THEN 0
                            ELSE pl.media_list[pl.current_index + 1]]

\* MediaPlayerApp.update_ui_state with MediaPlayerUI.set_playing
update_ui_state(pl) == [pl EXCEPT !.is_playing = (get_status(pl).state = "playing")]

playerIdle ==
    <<swap_axes, running, thread, touch_x, touch_y, is_touching, touch_regions,
      raw_x, raw_y, pen_down, ev, fired, before, press, m_in, m_out,
      screen, hw, io, hist, pixel, app, torn, pool>>

Did(pl, op) == [pl EXCEPT !.op = op]

LoadMediaDirectory ==
    /\ \E exists \in BOOLEAN, n \in 0..MaxTracks :
          player' = Did(load_media_directory(player, exists, n), "load_media_directory")
    /\ UNCHANGED <<gpio, playerIdle>>

VlcNext ==
    /\ \E loaded \in BOOLEAN : player' = Did(next(player, loaded), "next")
    /\ UNCHANGED <<gpio, playerIdle>>

VlcPrevious ==
    /\ \E loaded \in BOOLEAN : player' = Did(previous(player, loaded), "previous")
    /\ UNCHANGED <<gpio, playerIdle>>

VlcPlay ==
    /\ player' = Did(play(player), "play")
    /\ UNCHANGED <<gpio, playerIdle>>

VlcPause ==
    /\ player' = Did(pause(player), "pause")
    /\ UNCHANGED <<gpio, playerIdle>>

VlcStop ==
    /\ player' = Did(vlc_stop(player), "stop")
    /\ UNCHANGED <<gpio, playerIdle>>

\* libvlc changes the state of the player by itself
LibvlcChange ==
    /\ \E st \in {"State.Playing", "State.Ended", "State.Error"} :
          /\ CASE st = "State.Playing" -> player.state \in {"State.Opening", "State.Buffering"}
               [] st = "State.Ended"   -> player.state = "State.Playing"
               [] st = "State.Error"   -> player.state = "State.Opening"
          /\ player' = Did([player EXCEPT !.state = st], "libvlc")
    /\ UNCHANGED <<gpio, playerIdle>>

UpdateUiState ==
    /\ player' = Did(update_ui_state(player), "update_ui_state")
    /\ UNCHANGED <<gpio, playerIdle>>

InitPlayer ==
    /\ swap_axes = TRUE
    /\ running = FALSE
    /\ thread = "none"
    /\ touch_x = 0 /\ touch_y = 0
    /\ is_touching = FALSE
    /\ touch_regions = <<>>
    /\ raw_x = 0 /\ raw_y = 0
    /\ pen_down = FALSE
    /\ ev = NoEvent /\ fired = <<>>
    /\ before = [x |-> 0, y |-> 0, touching |-> FALSE]
    /\ press = NoPress
    /\ m_in = NoMapCase /\ m_out = <<>>
    /\ screen = NewScreen(screen_width, screen_height) /\ hw = LinesAtBoot
    /\ io = NoOperation /\ hist = NoHistory
    /\ pixel = NoPixel /\ app = NewApp("open") /\ torn = NoTorn
    /\ player = NewPlayer /\ gpio = NewGpio /\ pool = NoPool

NextPlayer ==
    \/ LoadMediaDirectory
    \/ VlcNext
    \/ VlcPrevious
    \/ VlcPlay
    \/ VlcPause
    \/ VlcStop
    \/ LibvlcChange
    \/ UpdateUiState

SpecPlayer == InitPlayer /\ [][NextPlayer]_vars

(***************************************************************************)
(* SpecGpio: the buttons.  gpiozero calls the when_pressed handler of a    *)
(* button at each press; time.time() is read in tenths of a second and     *)
(* does not go back.                                                       *)
(***************************************************************************)
MaxTime == 8

\* faulty variant of _debounce_check: one time stamp for all the buttons
DebounceShared(g, action) ==
    IF \A a \in Actions : g.now - g.last_press_time[a] > debounce_delay
    THEN [ok |-> TRUE, last_press_time |-> [g.last_press_time EXCEPT ![action] = g.now]]
    ELSE [ok |-> FALSE, last_press_time |-> g.last_press_time]

\* GPIOHandler._debounce_check: what it returns and leaves in last_press_time
_debounce_check(g, action) ==
    IF g.now - g.last_press_time[action] > debounce_delay
    THEN [ok |-> TRUE, last_press_time |-> [g.last_press_time EXCEPT ![action] = g.now]]
    ELSE [ok |-> FALSE, last_press_time |-> g.last_press_time]

\* what the handler of a button does with the controller once the press is
\* accepted: _on_play_pause_pressed, _on_stop_pressed, _on_next_pressed,
\* _on_previous_pressed
Trigger(pl, action, loaded) ==
    CASE action = "play_pause" -> IF pl.state = "State.Playing" THEN pause(pl) ELSE play(pl)
      [] action = "stop"       -> vlc_stop(pl)
      [] action = "next"       -> next(pl, loaded)
      [] action = "previous"   -> previous(pl, loaded)

\* a button is pressed: its when_pressed handler runs
Press(action) ==
    /\ \E loaded \in BOOLEAN :
       \E chk \in {_debounce_check(gpio, action)} :
          /\ gpio' = [gpio EXCEPT !.last_press_time = chk.last_press_time,
                                  !.press = [action |-> action, at |-> gpio.now,
                                             before |-> gpio.last_press_time,
                                             player |-> player,
                                             triggered |-> IF chk.ok THEN action ELSE "none"]]
          /\ player' = IF chk.ok THEN Did(Trigger(player, action, loaded), action) ELSE player
    /\ UNCHANGED playerIdle

\* a tenth of a second passes
Tick ==
    /\ gpio.now < MaxTime
    /\ gpio' = [gpio EXCEPT !.now = @ + 1]
    /\ UNCHANGED <<player, playerIdle>>

InitGpio ==
    /\ swap_axes = TRUE
    /\ running = FALSE
    /\ thread = "none"
    /\ touch_x = 0 /\ touch_y = 0
    /\ is_touching = FALSE
    /\ touch_regions = <<>>
    /\ raw_x = 0 /\ raw_y = 0
    /\ pen_down = FALSE
    /\ ev = NoEvent /\ fired = <<>>
    /\ before = [x |-> 0, y |-> 0, touching |-> FALSE]
    /\ press = NoPress
    /\ m_in = NoMapCase /\ m_out = <<>>
    /\ screen = NewScreen(screen_width, screen_height) /\ hw = LinesAtBoot
    /\ io = NoOperation /\ hist = NoHistory
    /\ pixel = NoPixel /\ app = NewApp("open") /\ torn = NoTorn
    /\ player = load_media_directory(NewPlayer, TRUE, 2)
    /\ gpio = NewGpio /\ pool = NoPool

NextGpio ==
    \/ \E action \in Actions : Press(action)
    \/ Tick

SpecGpio == InitGpio /\ [][NextGpio]_vars

(***************************************************************************)
(* SpecFail: the sampler thread of Spec with callbacks that may raise.     *)
(* Every callback of _read_events is invoked inside the try of lines       *)
(* 148-182, after the stores to the touch state of its branch.             *)
(***************************************************************************)
\* faulty variant of ReadRaising: the exception is caught inside the loop and
\* the next event is read
ReadRaisingContinues(e) ==
    /\ thread = "reading"
    /\ running
    /\ pool.raised = 0
    /\ DeviceCanEmit(e)
    /\ pen_down' = IF IsTouchKey(e) THEN e.value = 1 ELSE pen_down
    /\ before' = Snapshot
    /\ HandleEvent(e)
    /\ ev' = e
    /\ fired' # <<>>
    /\ \E k \in 1..Len(fired') : pool' = [pool EXCEPT !.raised = k, !.touching = is_touching']
    /\ UNCHANGED <<swap_axes, running, thread, touch_regions, press, m_in, m_out,
                   screen, hw, io, hist, pixel, app, torn, player, gpio>>

\* one iteration of the loop of _read_events in which callback number
\* pool.raised of the event raises: the stores of the branch are done, the
\* callbacks after it are not invoked (fired lists all the event calls for),
\* the except clause prints and the thread function returns
ReadRaising(e) ==
    /\ thread = "reading"
    /\ running
    /\ pool.raised = 0
    /\ DeviceCanEmit(e)
    /\ pen_down' = IF IsTouchKey(e) THEN e.value = 1 ELSE pen_down
    /\ before' = Snapshot
    /\ HandleEvent(e)
    /\ ev' = e
    /\ fired' # <<>>
    /\ \E k \in 1..Len(fired') : pool' = [pool EXCEPT !.raised = k, !.touching = is_touching']
    /\ thread' = "exited"
    /\ UNCHANGED <<swap_axes, running, touch_regions, press, m_in, m_out,
                   screen, hw, io, hist, pixel, app, torn, player, gpio>>

NextFail ==
    \/ Next
    \/ \E e \in Events : ReadRaising(e)

SpecFail == Init /\ [][NextFail]_vars

(***************************************************************************)
(* SpecPool: start(), stop() and cleanup() of TouchHandler called in any   *)
(* order, with every thread start() has created.  pool.threads holds the   *)
(* state of each thread, thread that of the latest (self.thread).  An      *)
(* event read from the device goes to one of the threads blocked in        *)
(* read_loop().  Axis events, which change only the locals of the thread   *)
(* that reads them, are left out: raw_x and raw_y are 0 in every thread.   *)
(***************************************************************************)
MaxThreads == 3

PoolEvents == {e \in Events : e.type # "EV_ABS"}

Reading(threads) == {i \in 1..Len(threads) : threads[i] = "reading"}

poolIdle ==
    <<swap_axes, touch_regions, press, m_in, m_out, screen, hw, io, hist,
      pixel, app, torn, player, gpio>>

\* TouchHandler.start: nothing is asked about a thread already there
PoolStart ==
    /\ Len(pool.threads) < MaxThreads
    /\ running' = TRUE
    /\ thread' = "reading"
    /\ pool' = [pool EXCEPT !.threads = Append(@, "reading")]
    /\ ev' = NoEvent /\ fired' = <<>> /\ before' = Snapshot
    /\ UNCHANGED <<touch_x, touch_y, is_touching, raw_x, raw_y, pen_down, poolIdle>>

\* TouchHandler.stop: the join returns when the thread has ended or after a
\* second
PoolStop ==
    /\ running' = FALSE
    /\ ev' = NoEvent /\ fired' = <<>> /\ before' = Snapshot
    /\ UNCHANGED <<thread, pool, touch_x, touch_y, is_touching, raw_x, raw_y,
                   pen_down, poolIdle>>

\* TouchHandler.cleanup: stop(), then the device is closed
PoolCleanup ==
    /\ running' = FALSE
    /\ pool' = [pool EXCEPT !.device = "closed"]
    /\ ev' = NoEvent /\ fired' = <<>> /\ before' = Snapshot
    /\ UNCHANGED <<thread, touch_x, touch_y, is_touching, raw_x, raw_y,
                   pen_down, poolIdle>>

\* one iteration of the loop of _read_events in thread i
PoolRead(i, e) ==
    /\ i \in Reading(pool.threads)
    /\ pool.device = "open"
    /\ DeviceCanEmit(e)
    /\ pen_down' = IF IsTouchKey(e) THEN e.value = 1 ELSE pen_down
    /\ before' = Snapshot
    /\ IF running
       THEN /\ HandleEvent(e)
            /\ ev' = e
            /\ UNCHANGED <<thread, pool>>
       ELSE /\ pool' = [pool EXCEPT !.threads[i] = "exited"]
            /\ thread' = pool'.threads[Len(pool'.threads)]
            /\ ev' = NoEvent /\ fired' = <<>>
            /\ UNCHANGED <<touch_x, touch_y, is_touching, raw_x, raw_y>>
    /\ UNCHANGED <<running, poolIdle>>

\* read_loop() raises in thread i
PoolReadError(i) ==
    /\ i \in Reading(pool.threads)
    /\ pool' = [pool EXCEPT !.threads[i] = "exited"]
    /\ thread' = pool'.threads[Len(pool'.threads)]
    /\ ev' = NoEvent /\ fired' = <<>> /\ before' = Snapshot
    /\ UNCHANGED <<running, touch_x, touch_y, is_touching, raw_x, raw_y,
                   pen_down, poolIdle>>

NextPool ==
    \/ PoolStart
    \/ PoolStop
    \/ PoolCleanup
    \/ \E i \in 1..MaxThreads, e \in PoolEvents : PoolRead(i, e)
    \/ \E i \in 1..MaxThreads : PoolReadError(i)

SpecPool == Init /\ [][NextPool]_vars

(***************************************************************************)
(* Properties of the display driver                                        *)
(***************************************************************************)
IsPush(op) == op \in {"_display_image", "update_display", "clear_display", "render"}

\* no initialize has acquired anything yet: the state Screen.__init__ leaves
Unstarted(s) == s = NewScreen(s.width, s.height)

\* a handle that holds no hardware resource
Released(st) == st \in {"none", "closed"}

\* C11: a frame push (_display_image, update_display, clear_display, render)
\* requested before initialize() or after cleanup() fails with an error and
\* writes no byte to the transport.
C11_PushOnlyWhenReady ==
    (IsPush(io.op) /\ (Unstarted(io.before.screen) \/ io.before.hist.cleaned))
        => (io.result = "raised" /\ WritesOf(io.trace) = <<>>)

\* C12: after cleanup() returns, the SPI transport is closed and the reset,
\* data/command and backlight lines are released, whatever happened before.
C12_CleanupReleasesAll ==
    (io.op = "cleanup" /\ io.result = "returned")
        => /\ Released(screen.spi)
           /\ Released(screen.rst_device)
           /\ Released(screen.dc_device)
           /\ Released(screen.bl_device)

\* C13: once cleanup() has completed, a further cleanup() raises nothing to
\* the caller, performs no operation on the transport or the lines, and
\* leaves the driver state unchanged.
C13_CleanupIdempotent ==
    (io.op = "cleanup" /\ io.before.hist.cleaned)
        => /\ io.result = "returned"
           /\ io.trace = <<>>
           /\ screen = io.before.screen
           /\ hw = io.before.hw

\* a second cleanup() of a driver that had been initialized and cleaned up
C13_Witness ==
    /\ io.op = "cleanup"
    /\ io.before.hist.cleaned
    /\ io.before.screen.bl_device = "closed"
    /\ io.before.screen.spi = "closed"

\* C14: a second initialize() without an intervening cleanup() is rejected
\* with an error: no reset pulse, no controller command, no new handle.
C14_InitializeNotRepeatable ==
    (io.op = "initialize" /\ io.before.hist.ready)
        => /\ io.result = "raised"
           /\ io.trace = <<>>
           /\ screen = io.before.screen

\* initialize() of a Ready driver when nothing else would make it fail
C14_Witness ==
    /\ io.op = "initialize"
    /\ io.before.hist.ready
    /\ io.fault = "none"

\* C15: when the transport cannot be opened, initialize() raises, writes no
\* controller command, and the driver is not Ready: no image is created.
C15_OpenFailureSurfaces ==
    (io.op = "initialize" /\ io.fault = "spi_open")
        => /\ io.result = "raised"
           /\ WritesOf(io.trace) = <<>>
           /\ ~hist.ready
           /\ screen.image = io.before.screen.image

\* initialize() got as far as spi.open, which failed
C15_Witness ==
    /\ io.op = "initialize"
    /\ io.fault = "spi_open"
    /\ screen.spi = "unopened"
    /\ screen.bl_device = "open"
    /\ screen.image = <<>>

IsValue(e) == e.k = "value"

\* C16: on a PWM backlight, _set_backlight(on, b) applies min(1, max(0, b))
\* when on and 0 when off, and hands the device no value outside [0,1]
\* (tenths: 0..10).
C16_BacklightClamped ==
    (io.op = "_set_backlight" /\ io.before.screen.bl_device = "open"
                              /\ io.before.screen.bl_kind = "pwm")
        => /\ hw.bl = IF io.arg[1] THEN Min(10, Max(0, io.arg[2])) ELSE 0
           /\ \A i \in DOMAIN io.trace :
                  IsValue(io.trace[i]) => io.trace[i].v \in 0..10

IsPixelWrite(e) == e.k = "write" /\ e.by = "_display_image"
PixelWrites == SelectSeq(io.trace, IsPixelWrite)

\* what a push has to send before the first pixel byte
Header(s) ==
    << <<42>>, <<0, 0, Hi(s.width - 1), Lo(s.width - 1)>>,
       <<43>>, <<0, 0, Hi(s.height - 1), Lo(s.height - 1)>>, <<44>> >>

\* C17: every push writes 0x2A and its 4 bytes, 0x2B and its 4 bytes, then
\* 0x2C, and only then pixel bytes; a push that returns has written all
\* five; two consecutive pushes send the same window (0,0,239,319 for
\* 240x320).
C17_WindowBeforePixels ==
    IsPush(io.op) =>
        LET w == WritesOf(io.trace)
        IN  /\ \A i \in DOMAIN w :
                  /\ i <= 5 => (w[i].bytes = Header(screen)[i] /\ ~IsPixelWrite(w[i]))
                  /\ i > 5 => IsPixelWrite(w[i])
            /\ (io.result = "returned" /\ io.before.screen.image # <<>>) => Len(w) > 5
            /\ (Len(w) >= 4 /\ io.before.hist.window # <<>>)
                  => <<w[2].bytes, w[4].bytes>> = io.before.hist.window
            /\ (Len(w) >= 4 /\ screen.width = 240 /\ screen.height = 320)
                  => (w[2].bytes = <<0, 0, 0, 239>> /\ w[4].bytes = <<0, 0, 1, 63>>)

\* a complete push of a 240x320 frame that follows an earlier push
C17_Witness ==
    /\ IsPush(io.op)
    /\ io.result = "returned"
    /\ io.before.hist.window # <<>>
    /\ PixelWrites # <<>>
    /\ screen.width = 240

\* C18: every single spi.writebytes call carries at most 4096 bytes.
C18_WriteLimit ==
    \A i \in DOMAIN io.trace :
        IsWrite(io.trace[i]) =>
            /\ WriteLen(io.trace[i]) <= 4096
            /\ Len(io.trace[i].bytes) <= 4096

\* _write_data with more than 4096 bytes went out, in several writes
C18_Witness ==
    /\ io.op = "_write_data"
    /\ io.result = "returned"
    /\ io.arg[1].len > 4096
    /\ Len(WritesOf(io.trace)) >= 2

CeilDiv(a, b) == (a + b - 1) \div b

\* the writes ws split a buffer of length L into consecutive chunks of m
LosslessSplit(ws, L, m) ==
    /\ Len(ws) = CeilDiv(L, m)
    /\ \A i \in DOMAIN ws :
          /\ ws[i].from = (i - 1) * m
          /\ ws[i].to = IF i < Len(ws) THEN i * m ELSE L

\* C19: a push that completes writes its packed buffer of length L as
\* exactly ceil(L/m) writes, all of length m except possibly the last, and
\* consecutive from byte 0 to byte L; so does _write_data with its data.
C19_ChunkingLossless ==
    /\ (IsPush(io.op) /\ io.result = "returned" /\ io.before.screen.image # <<>>)
          => LosslessSplit(PixelWrites,
                           pixel_buffer(screen.image[1] * screen.image[2]).len, chunk_size)
    /\ (io.op = "_write_data" /\ io.result = "returned" /\ io.arg[1].kind # "int"
                              /\ io.arg[1].len > 0)
          => /\ LosslessSplit(WritesOf(io.trace), io.arg[1].len, 4096)
             /\ io.arg[1].kind = "list" => WritesOf(io.trace)[1].bytes = io.arg[1].bytes

\* a complete push whose last chunk is a partial one
C19_Witness ==
    /\ IsPush(io.op)
    /\ io.result = "returned"
    /\ Len(PixelWrites) = 2
    /\ WriteLen(PixelWrites[2]) < chunk_size

RECURSIVE TotalLen(_, _)
TotalLen(ws, i) == IF i > Len(ws) THEN 0 ELSE WriteLen(ws[i]) + TotalLen(ws, i + 1)

\* the number of columns or rows that a window parameter block 0,0,hi,lo spans
Span(block) == block[3] * 256 + block[4] + 1 - (block[1] * 256 + block[2])

\* C20: a push that completes streams, after memory-write, exactly two bytes
\* for each pixel of the window it has just set.
C20_TwoBytesPerPixel ==
    (IsPush(io.op) /\ io.result = "returned" /\ io.before.screen.image # <<>>)
        => TotalLen(PixelWrites, 1)
             = 2 * Span(WritesOf(io.trace)[2].bytes) * Span(WritesOf(io.trace)[4].bytes)

\* a complete push of a 240x320 frame: 153600 bytes
C20_Witness ==
    /\ IsPush(io.op)
    /\ io.result = "returned"
    /\ screen.image = <<240, 320>>
    /\ TotalLen(PixelWrites, 1) = 153600

(***************************************************************************)
(* Properties of the RGB565 packing                                        *)
(***************************************************************************)
\* C21: the two bytes of a pixel are high = (r & 0xF8) | (g >> 5) and
\* low = ((g << 3) & 0xE0) | (b >> 3), high byte first; black packs to
\* 0x0000 and white to 0xFFFF.  The masks are written arithmetically here.
C21_PackingBitExact ==
    pixel.bytes # <<>> =>
        LET r == pixel.rgb[1]
            g == pixel.rgb[2]
            b == pixel.rgb[3]
        IN  /\ pixel.bytes[1] = (r - (r % 8)) + (g \div 32)
            /\ pixel.bytes[2] = ((g \div 4) % 8) * 32 + (b \div 8)
            /\ pixel.rgb = <<0, 0, 0>> => pixel.bytes = <<0, 0>>
            /\ pixel.rgb = <<255, 255, 255>> => pixel.bytes = <<255, 255>>

\* a pixel whose two bytes differ and draw on all three channels
C21_Witness ==
    /\ pixel.rgb = <<255, 128, 7>>
    /\ pixel.bytes = <<252, 0>>

\* the channels recovered from the two bytes by the inverse masks
Decode(bytes) ==
    << bytes[1] - (bytes[1] % 8),
       (bytes[1] % 8) * 32 + (bytes[2] \div 32) * 4,
       (bytes[2] % 32) * 8 >>

\* C22: decoding the packed value gives r' and b' with 0 <= r-r' < 8 and
\* 0 <= b-b' < 8, and g' with 0 <= g-g' < 4.
C22_LossBounded ==
    pixel.bytes # <<>> =>
        LET d == Decode(pixel.bytes)
        IN  /\ pixel.rgb[1] - d[1] \in 0..7
            /\ pixel.rgb[2] - d[2] \in 0..3
            /\ pixel.rgb[3] - d[3] \in 0..7

\* a pixel that loses the most on every channel
C22_Witness ==
    /\ pixel.rgb = <<7, 3, 255>>
    /\ pixel.bytes # <<>>
    /\ Decode(pixel.bytes) = <<0, 0, 248>>

(***************************************************************************)
(* Properties of the display driver: transport failures                    *)
(***************************************************************************)
IsFault(e) == e.k = "fault"

\* C23: when a transport write fails during a push or the init sequence, the
\* operation raises, the failed write is attempted once, and it is the last
\* thing the operation does: no later write, no later line change.
C23_WriteFailurePropagates ==
    SelectSeq(io.trace, IsFault) # <<>>
        => /\ io.result = "raised"
           /\ Len(SelectSeq(io.trace, IsFault)) = 1
           /\ IsFault(io.trace[Len(io.trace)])

\* a push whose first pixel chunk failed, after the window and memory-write
C23_Witness ==
    /\ IsPush(io.op)
    /\ io.result = "raised"
    /\ Len(WritesOf(io.trace)) = 5
    /\ IsFault(io.trace[Len(io.trace)])

(***************************************************************************)
(* Properties of the sampler's shutdown                                    *)
(***************************************************************************)
\* C28: once the sampler has been stopped (stop() after start()) or its
\* thread has exited, is_touching is false.
C28_ResetAtShutdown ==
    (thread = "exited" \/ (thread # "none" /\ ~running)) => ~is_touching


(***************************************************************************)
(* Properties of the application: the sampler inside MediaPlayerApp        *)
(***************************************************************************)
\* C24: without a touch device start() returns False, starts no thread and
\* leaves running false, and the application goes on into its loop.
C24_NoDeviceNoSampler ==
    (app.device = "none" /\ app.started # "unset")
        => /\ app.started = "False"
           /\ thread = "none"
           /\ ~running
           /\ app.main # "new"

\* no device, and the loop has rendered a frame to the display
C24_Witness ==
    /\ app.device = "none"
    /\ app.started = "False"
    /\ app.main = "loop"
    /\ app.last_render = "ok"
    /\ hist.window # <<>>

\* C25: stop() returns: the wait for the sampler thread inside it ends, also
\* when the thread stays blocked in its read.
C25_StopReturns == (app.main = "joining") ~> (app.main # "joining")

\* the join has returned while the thread is still in its read
C25_Witness ==
    /\ app.main = "closing"
    /\ thread = "reading"
    /\ ~running

\* C26: once stop() has been called the sampler thread leaves its read loop
\* and ends, whether or not another event arrives.
C26_SamplerEndsAfterStop ==
    (thread = "reading" /\ ~running /\ app.main \in {"joining", "closing", "done"})
        ~> (thread # "reading")

\* C27: a read error ends the sampler thread by a normal return of
\* _read_events; nothing is raised out of the thread.
C27_ReadErrorEndsSampler == app.cause = "error" => thread = "exited"

\* the read failed while sampling was running, and the loop has rendered a
\* frame to the display since
C27_Witness ==
    /\ app.cause = "error"
    /\ thread = "exited"
    /\ running
    /\ app.main = "loop"
    /\ app.last_render = "ok"

\* C30: the sampler thread, callbacks included, never writes to the SPI bus
\* and never drives the data/command line.
C30_SamplerNeverUsesTransport == "sampler" \notin app.spi_users

\* a press on the play button reached the player from the sampler thread,
\* and the main thread has used the transport
C30_Witness ==
    /\ app.hit = "btn_play"
    /\ app.action = "play_pause"
    /\ thread = "reading"
    /\ app.spi_users = {"main"}


(***************************************************************************)
(* Properties of the shared touch state                                    *)
(***************************************************************************)
\* C29: a reader that has loaded the three attributes holds a triple the
\* attributes held together at the end of some statement of the sampler.
C29_NoTornRead == torn.rpc = 3 => torn.seen \in torn.published


(***************************************************************************)
(* Properties of the display driver: framing and the initialization        *)
(***************************************************************************)
IsTransfer(e) == e.k \in {"write", "fault"}
IsSelect(e) == e.k = "line" /\ e.h = "dc"
IsCommand(e) == e.k = "write" /\ e.by = "_write_command"

\* C31: at every transport write the data/command line is low exactly when
\* the byte is written by _write_command, and high for parameter and pixel
\* bytes.
C31_FramingInvariant ==
    \A i \in 1..Len(io.trace) :
        IsTransfer(io.trace[i]) => ((io.trace[i].v = 0) <=> (io.trace[i].by = "_write_command"))

\* a push that wrote commands, parameters and pixels
C31_Witness ==
    /\ IsPush(io.op)
    /\ io.result = "returned"
    /\ \E i, j, k \in 1..Len(io.trace) :
          /\ IsCommand(io.trace[i]) /\ io.trace[i].v = 0
          /\ io.trace[j].k = "write" /\ io.trace[j].by = "_write_data" /\ io.trace[j].v = 1
          /\ IsPixelWrite(io.trace[k]) /\ io.trace[k].v = 1

\* C32: every change of the data/command line and every bus write of the
\* driver is made by _write_command or _write_data.
C32_OnlyThePrimitives ==
    \A i \in 1..Len(io.trace) :
        (IsTransfer(io.trace[i]) \/ IsSelect(io.trace[i]))
            => io.trace[i].by \in {"_write_command", "_write_data"}

\* the bytes of the controller configuration, command first then parameters
InitPairs ==
    << <<1>>, <<40>>, <<207, 0, 131, 48>>, <<237, 100, 3, 18, 129>>,
       <<232, 133, 1, 121>>, <<203, 57, 44, 0, 52, 2>>, <<247, 32>>,
       <<234, 0, 0>>, <<192, 38>>, <<193, 17>>, <<197, 53, 62>>, <<199, 190>>,
       <<54, 40>>, <<58, 85>>, <<177, 0, 27>>, <<242, 8>>, <<38, 1>>,
       <<17>>, <<41>> >>

\* the (command, parameters) pairs written in a trace, in order
RECURSIVE PairsOf(_, _, _)
PairsOf(ws, i, acc) ==
    IF i > Len(ws) THEN acc
    ELSE IF ws[i].by = "_write_command" \/ acc = <<>>
         THEN PairsOf(ws, i + 1, Append(acc, ws[i].bytes))
         ELSE PairsOf(ws, i + 1, [acc EXCEPT ![Len(acc)] = @ \o ws[i].bytes])

IsPrefix(a, b) == Len(a) <= Len(b) /\ a = SubSeq(b, 1, Len(a))

\* C33: initialize() writes the fixed configuration in order, with pixel
\* format 0x3A 0x55; exit-sleep 0x11 and display-on 0x29 come last, each
\* followed at once by a delay; no pixel is written by initialize().
C33_FixedInitSequence ==
    io.op = "initialize" =>
        /\ io.result = "returned" => PairsOf(WritesOf(io.trace), 1, <<>>) = InitPairs
        /\ LET got == PairsOf(WritesOf(io.trace), 1, <<>>)
           IN  got # <<>> =>
                 /\ IsPrefix(SubSeq(got, 1, Len(got) - 1), InitPairs)
                 /\ Len(got) <= Len(InitPairs)
                 /\ IsPrefix(got[Len(got)], InitPairs[Len(got)])
        /\ \A i \in 1..Len(io.trace) :
              /\ IsCommand(io.trace[i]) /\ io.trace[i].bytes \in {<<17>>, <<41>>}
                   => /\ i < Len(io.trace)
                      /\ io.trace[i + 1].k = "sleep"
                      /\ io.trace[i + 1].v > 0
              /\ ~IsPixelWrite(io.trace[i])

\* an initialize() that returned, with its 19 commands and 15 parameter blocks
C33_Witness ==
    /\ io.op = "initialize"
    /\ io.result = "returned"
    /\ Len(WritesOf(io.trace)) = 34
    /\ SelectSeq(io.trace, IsCommand)[19].bytes = <<41>>

IsResetLine(e) == e.k = "line" /\ e.h = "rst"

\* the levels driven in a sequence of line events, in order
RECURSIVE LevelsOf(_, _)
LevelsOf(es, i) == IF i > Len(es) THEN <<>> ELSE <<es[i].v>> \o LevelsOf(es, i + 1)

\* the reset line is pulsed once, each level held for a delay, before any
\* byte is written
ResetPulseFirst ==
    /\ LevelsOf(SelectSeq(io.trace, IsResetLine), 1) = <<1, 0, 1>>
    /\ \A i \in 1..Len(io.trace) :
          IsResetLine(io.trace[i])
              => /\ io.trace[i + 1].k = "sleep"
                 /\ \A j \in 1..i : ~IsTransfer(io.trace[j])

\* whatever raises the backlight line comes after the display-on command
BacklightAfterDisplayOn ==
    \A i \in 1..Len(io.trace) :
        (io.trace[i].h = "bl" /\ io.trace[i].k \in {"new", "value"} /\ io.trace[i].v > 0)
            => \E j \in 1..(i - 1) : IsCommand(io.trace[j]) /\ io.trace[j].bytes = <<41>>

\* C34: in initialize() the reset line is pulsed once (on, wait, off, wait,
\* on, wait) before the first command byte, and the backlight is raised only
\* after the display-on command.
C34_ResetOnceAndFirst ==
    (io.op = "initialize" /\ io.result = "returned")
        => (ResetPulseFirst /\ BacklightAfterDisplayOn)


(***************************************************************************)
(* Properties of the application: shutdown                                 *)
(***************************************************************************)
\* the components of q that are in set c, in the order of q
RECURSIVE Only(_, _, _)
Only(q, c, i) ==
    IF i > Len(q) THEN <<>>
    ELSE (IF q[i] \in c THEN <<q[i]>> ELSE <<>>) \o Only(q, c, i + 1)

\* C35: when cleanup() has returned, the cleanup of every component that was
\* created has been called, in the order touch, GPIO, VLC, screen, whichever
\* of them raised; the display driver's cleanup is among them.
C35_CleanupAttemptsAll ==
    app.main = "done"
        => /\ app.cleaned = Only(<<"touch", "gpio", "vlc", "screen">>, app.created, 1)
           /\ "screen" \in app.created
           /\ hist.cleaned

\* cleanup() has returned after an interrupt that followed a failed frame
\* push, the cleanups of the touch handler and the buttons raised, and the
\* display driver was cleaned up
C35_Witness ==
    /\ app.main = "done"
    /\ app.last_render = "failed"
    /\ app.failed = {"touch", "gpio"}
    /\ app.cleaned = <<"touch", "gpio", "vlc", "screen">>
    /\ screen.spi = "closed"


(***************************************************************************)
(* Properties of the player                                                *)
(***************************************************************************)
\* C36: after update_ui_state() the UI's is_playing is true exactly when the
\* player's state is the playing state.
C36_UiTracksPlayer ==
    player.op = "update_ui_state" => (player.is_playing <=> player.state = "State.Playing")

\* C39: whenever media_list is not empty, current_index is an index into it.
C39_IndexInRange ==
    player.media_list # <<>>
        => (0 <= player.current_index /\ player.current_index < Len(player.media_list))


(***************************************************************************)
(* Properties of the buttons                                               *)
(***************************************************************************)
\* C40: a press of an action is accepted exactly when more than
\* debounce_delay has passed since the last accepted press of that action;
\* an accepted press triggers the action and stamps that action alone, a
\* rejected press changes neither last_press_time nor the player.
C40_DebouncePerAction ==
    gpio.press.action # "none" =>
        LET p == gpio.press
            accepted == p.triggered # "none"
        IN  /\ accepted <=> (p.at - p.before[p.action] > debounce_delay)
            /\ accepted => /\ p.triggered = p.action
                           /\ gpio.last_press_time = [p.before EXCEPT ![p.action] = p.at]
                           /\ player.op = p.action
            /\ ~accepted => /\ gpio.last_press_time = p.before
                            /\ player = p.player

\* a press accepted though another action was accepted less than the delay
\* before it
C40_Witness ==
    /\ gpio.press.triggered = "next"
    /\ gpio.press.at - gpio.press.before["stop"] = 1
    /\ gpio.press.at - gpio.press.before["next"] = debounce_delay + 1
    /\ player.current_index = 0


(***************************************************************************)
(* Properties of the sampler: threads and failing callbacks                *)
(***************************************************************************)
\* C37: at most one sampler thread is reading the device at any time.
C37_OneSampler == Cardinality(Reading(pool.threads)) <= 1

\* C38: once a callback has raised, the sampler thread has ended by a normal
\* return, no later step handles an event or invokes a callback, and
\* is_touching stays what it was when the callback raised.
C38_FailingCallbackContained ==
    [][pool'.raised # 0 => /\ thread' = "exited"
                           /\ is_touching' = pool'.touching
                           /\ pool.raised # 0 => (ev' = NoEvent /\ fired' = <<>>)]_vars

\* the down callback raised before the region under the point was
\* dispatched; the pen is down and the thread has ended
C38_Witness ==
    /\ pool.raised = 1
    /\ Len(fired) = 2
    /\ fired[1].cb = "on_touch_down"
    /\ fired[2].cb = "region"
    /\ is_touching
    /\ thread = "exited"

====
